---------------------------- MODULE Spec2Model ----------------------------
(***************************************************************************)
(* Email delivery lifecycle tracking: the record store (email_history,     *)
(* contacts, notifications, email_replies, pending_bounce_checks) and the  *)
(* serverless handlers that write it (track-email-open, mark-email-bounced,*)
(* sync-email-bounces, process-bounce-checks, process-email-replies,       *)
(* send-email).  Every await of a handler is a separate step, so handlers  *)
(* of different requests interleave at the record-store calls.             *)
(***************************************************************************)
EXTENDS Integers, Sequences, FiniteSets, TLC

NULL == "null"
\* a timestamp column holding null
NoTime == 0 - 1

EmailId == "e1"
\* further emails of the store, for runs that work on several rows
EmailIds == {"e1", "e2", "e3"}
\* mailboxes mail is sent from, and recipient addresses as the requests wrote them
SenderEmail == "a@crm"
OtherSender == "b@crm"
RecipientEmail == <<"R", "@", "x">>
OtherRecipient == <<"q", "@", "x">>
UnknownId == "e404"
ContactId == "c1"
UserId == "u1"

(***************************************************************************)
(* Bounds of the model.                                                    *)
(***************************************************************************)
\* pixel requests that may be in flight at the same time
NumFetchers == 2
\* pixel requests served in one behaviour
MaxFetches == 4
\* pixel requests served in one behaviour when every kind of request is drawn
TrackFetches == 2
\* mark-email-bounced calls in one behaviour
NumMarkers == 2

\* process-bounce-checks runs in one behaviour
NumCheckers == 2
\* sync-email-bounces runs in one behaviour
NumSyncers == 2
\* process-email-replies runs in one behaviour
NumRepliers == 2

Fetchers == 1..NumFetchers
Markers == 1..NumMarkers
Checkers == 1..NumCheckers
Syncers == 1..NumSyncers
Repliers == 1..NumRepliers

\* a message_id column holding null
NoMessageId == <<>>
\* the internetMessageId the provider gave the sent mail
MessageId == <<"<", "m", "1", ">">>
\* the internetMessageId the provider gave another mail of the sender
OtherMessageId == <<"<", "m", "2", ">">>
\* the provider's ids of the messages in the sender's inbox
GraphIds == {"g1", "g2", "g3", "g4"}

\* BounceCheckWorker: browser tabs with the worker mounted, and runBounceCheck
\* calls a tab has in flight at once (timer, interval, visibility change)
NumTabs == 2
NumCalls == 2
Tabs == 1..NumTabs
Calls == 1..NumCalls

\* BounceCheckWorker: 2 minutes minimum between checks
MIN_TIME_BETWEEN_CHECKS_SECONDS == 120

\* process-bounce-checks: the rows one run reads from pending_bounce_checks, the
\* .limit(50) of the query at the scale of the model's tables
PendingLimit == 3

\* process-email-replies: emails sent in the last 7 days are looked at
REPLY_LOOKBACK_SECONDS == 604800

\* send-email: the bounce check is due 45000 ms after the send
BOUNCE_CHECK_DELAY_SECONDS == 45
\* process-bounce-checks: NDRs and emails of the last 72 hours are looked at
NDR_LOOKBACK_SECONDS == 259200
\* process-bounce-checks: pending checks older than 7 days are deleted
CLEANUP_AGE_SECONDS == 604800

(***************************************************************************)
(* track-email-open: constants and pure functions.                         *)
(***************************************************************************)
TRACKING_PIXEL == "GIF89a_1x1_transparent"

BOT_USER_AGENTS ==
  << <<"m","i","c","r","o","s","o","f","t","-","e","x","c","h","a","n","g","e">>,
     <<"m","s","e","x","c","h","a","n","g","e">>,
     <<"b","a","r","r","a","c","u","d","a">>,
     <<"p","r","o","o","f","p","o","i","n","t">>,
     <<"m","i","m","e","c","a","s","t">>,
     <<"f","i","r","e","e","y","e">>,
     <<"g","o","o","g","l","e","i","m","a","g","e","p","r","o","x","y">>,
     <<"y","m","a","i","l","p","r","o","x","y">>,
     <<"o","u","t","l","o","o","k","p","r","o","x","y">>,
     <<"y","a","h","o","o"," ","m","a","i","l"," ","p","r","o","x","y">>,
     <<"a","p","p","e","n","g","i","n","e","-","g","o","o","g","l","e">>,
     <<"g","o","o","g","l","e","b","o","t">>,
     <<"b","i","n","g","b","o","t">>,
     <<"s","l","u","r","p">>,
     <<"d","u","c","k","d","u","c","k","b","o","t">>,
     <<"b","a","i","d","u","s","p","i","d","e","r">>,
     <<"y","a","n","d","e","x","b","o","t">>,
     <<"f","a","c","e","b","o","o","k","e","x","t","e","r","n","a","l","h","i","t">>,
     <<"t","w","i","t","t","e","r","b","o","t">>,
     <<"l","i","n","k","e","d","i","n","b","o","t">>,
     <<"s","l","a","c","k","b","o","t">>,
     <<"w","h","a","t","s","a","p","p">>,
     <<"t","e","l","e","g","r","a","m","b","o","t">>,
     <<"d","i","s","c","o","r","d","b","o","t">>,
     <<"p","y","t","h","o","n","-","r","e","q","u","e","s","t","s">>,
     <<"c","u","r","l">>,
     <<"w","g","e","t">>,
     <<"h","t","t","p","i","e">>,
     <<"p","o","s","t","m","a","n">>,
     <<"i","n","s","o","m","n","i","a">>,
     <<"a","p","a","c","h","e","-","h","t","t","p","c","l","i","e","n","t">>,
     <<"j","a","v","a","/">>,
     <<"o","k","h","t","t","p">>,
     <<"g","o","-","h","t","t","p","-","c","l","i","e","n","t">>,
     <<"l","i","b","w","w","w","-","p","e","r","l">>,
     <<"r","u","b","y">>,
     <<"p","h","p","/">>,
     <<"g","u","z","z","l","e">>,
     <<"h","e","a","d","l","e","s","s","c","h","r","o","m","e">>,
     <<"p","h","a","n","t","o","m","j","s">>,
     <<"s","e","l","e","n","i","u","m">>,
     <<"p","u","p","p","e","t","e","e","r">>,
     <<"p","l","a","y","w","r","i","g","h","t">>,
     <<"a","t","p","-">>,
     <<"f","o","r","e","f","r","o","n","t">>,
     <<"s","a","f","e","l","i","n","k","s">>,
     <<"s","a","f","e"," ","l","i","n","k","s">>,
     <<"p","r","o","t","e","c","t","i","o","n",".","o","u","t","l","o","o","k">>,
     <<"d","e","f","e","n","d","e","r">>,
     <<"s","a","f","e","b","r","o","w","s","i","n","g">>,
     <<"e","m","a","i","l","s","e","c","u","r","i","t","y">>,
     <<"m","a","i","l","s","c","a","n","n","e","r">>,
     <<"s","p","a","m","a","s","s","a","s","s","i","n">>,
     <<"s","p","a","m","h","a","u","s">>,
     <<"m","e","s","s","a","g","e","l","a","b","s">>,
     <<"w","e","b","s","e","n","s","e">>,
     <<"s","y","m","a","n","t","e","c">>,
     <<"t","r","e","n","d"," ","m","i","c","r","o">>,
     <<"k","a","s","p","e","r","s","k","y">>,
     <<"s","o","p","h","o","s">>,
     <<"m","c","a","f","e","e">>,
     <<"n","o","r","t","o","n">>,
     <<"a","v","a","s","t">>,
     <<"a","v","g">>,
     <<"c","l","a","m">>,
     <<"b","i","t","d","e","f","e","n","d","e","r">>,
     <<"f","-","s","e","c","u","r","e">>,
     <<"p","a","n","d","a">>,
     <<"c","o","m","o","d","o">>,
     <<"e","s","e","t">>,
     <<"g"," ","d","a","t","a">>,
     <<"z","o","n","e","a","l","a","r","m">>,
     <<"w","e","b","r","o","o","t">>,
     <<"m","a","l","w","a","r","e","b","y","t","e","s">> >>

MIN_OPEN_DELAY_SECONDS == 5

DEDUP_WINDOW_SECONDS == 300

\* String.prototype.toLowerCase on the characters user agents are made of
LowerChar(c) ==
  LET up == ("A" :> "a") @@ ("B" :> "b") @@ ("C" :> "c") @@ ("D" :> "d") @@ ("E" :> "e") @@ ("F" :> "f") @@ ("G" :> "g") @@ ("H" :> "h") @@ ("I" :> "i") @@ ("J" :> "j") @@ ("K" :> "k") @@ ("L" :> "l") @@ ("M" :> "m") @@ ("N" :> "n") @@ ("O" :> "o") @@ ("P" :> "p") @@ ("Q" :> "q") @@ ("R" :> "r") @@ ("S" :> "s") @@ ("T" :> "t") @@ ("U" :> "u") @@ ("V" :> "v") @@ ("W" :> "w") @@ ("X" :> "x") @@ ("Y" :> "y") @@ ("Z" :> "z")
  IN IF c \in DOMAIN up THEN up[c] ELSE c

toLowerCase(s) == [i \in 1..Len(s) |-> LowerChar(s[i])]

\* String.prototype.includes
includes(s, sub) ==
  \E i \in 0..(Len(s) - Len(sub)) : SubSeq(s, i + 1, i + Len(sub)) = sub

\* a request without a User-Agent header
NoUserAgent == <<>>

UA_Browser == <<"M","o","z","i","l","l","a","/","5",".","0"," ","(","W","i","n","d","o","w","s"," ","N","T"," ","1","0",".","0",")"," ","C","h","r","o","m","e","/","1","2","0">>
UA_Googlebot == <<"g","o","o","g","l","e","b","o","t","/","2",".","1">>
UA_GooglebotMixed == <<"M","o","z","i","l","l","a","/","5",".","0"," ","(","c","o","m","p","a","t","i","b","l","e",";"," ","G","o","o","g","l","e","B","o","t","/","2",".","1",")">>
UA_OutlookProxy == <<"O","u","t","l","o","o","k","P","r","o","x","y">>

\* the user agents requests carry in this model
UserAgents == {NoUserAgent, UA_Browser, UA_Googlebot, UA_GooglebotMixed, UA_OutlookProxy}

\* isBotUserAgent comparing the agent as sent, without lower-casing it
isBotUserAgent_CaseSensitive(userAgent) ==
  IF userAgent = NoUserAgent THEN TRUE
  ELSE \E b \in 1..Len(BOT_USER_AGENTS) : includes(userAgent, BOT_USER_AGENTS[b])

\* lines 103-108: a missing agent, or one containing a listed signature, is a bot
isBotUserAgent(userAgent) ==
  IF userAgent = NoUserAgent THEN TRUE
  ELSE LET lowerUA == toLowerCase(userAgent)
       IN \E b \in 1..Len(BOT_USER_AGENTS) : includes(lowerUA, BOT_USER_AGENTS[b])

\* isBotUserAgent, tabulated over the user agents of the model
UserAgentIsBot == [ua \in UserAgents |-> isBotUserAgent(ua)]

\* the request headers getClientIP reads; x-forwarded-for is the list split at ","
RequestHeaders ==
  { [xff |-> <<"ipA", "ipB">>, real |-> "ipB", cf |-> NULL],
    [xff |-> <<>>, real |-> "ipB", cf |-> "ipA"],
    [xff |-> <<>>, real |-> NULL, cf |-> "ipA"] }

getClientIP(h) ==
  IF h.xff # <<>> THEN h.xff[1]
  ELSE IF h.real # NULL THEN h.real
  ELSE IF h.cf # NULL THEN h.cf
  ELSE "unknown"

ClientIPs == {getClientIP(h) : h \in RequestHeaders}

(***************************************************************************)
(* The record store and the handlers' positions.                           *)
(***************************************************************************)
VARIABLES
  envConfigured,   \* SUPABASE_URL and SUPABASE_SERVICE_ROLE_KEY are set
  now,             \* the wall clock, in seconds
  email_history,   \* table: id -> row
  contacts,        \* table: id -> row
  notifications,   \* table, as the number of rows of each notification_type
  track,           \* track-email-open requests: slot -> position and locals
  fetches,         \* pixel requests accepted so far
  lastOpenFrom,    \* history: ip -> instant of its latest qualifying open
  openCredits,     \* history: open credits that changed the contact
  mark,            \* mark-email-bounced calls: slot -> position and locals
  check,           \* process-bounce-checks runs: slot -> position and locals
  sync,            \* sync-email-bounces runs: slot -> position and locals
  bounceDebits,    \* history: bounce corrections that changed the contact
  pending_bounce_checks, \* table: email_history_id -> row
  ndr,             \* the non-delivery reports in the senders' mailboxes
  send,            \* the send-email request: position and locals
  sendOther,       \* a second send-email request, while the runtime serves the first
  sentItems,       \* the sender's Sent Items with the subject of the requests, oldest first
  reply,           \* process-email-replies runs: slot -> position and locals
  email_replies,   \* table, as the number of rows of each graph_message_id
  inbox,           \* the messages in the sender's inbox
  azureEnv,        \* the functions' environment: Azure variable -> value or null
  tokenCalls,      \* history: function -> its getAccessToken call, made on its own
  localStorage,    \* the localStorage item lastBounceCheckTime the tabs share, NoTime: not set
  isRunningRef,    \* BounceCheckWorker: tab -> isRunningRef.current
  worker,          \* BounceCheckWorker: tab -> call -> position of that runBounceCheck call
  invoked          \* history: the process-bounce-checks invocations the tabs made

trackVars == <<track, fetches, lastOpenFrom, openCredits>>
bounceVars == <<mark, check, sync, bounceDebits>>
replyVars == <<reply, email_replies>>
mailVars == <<ndr, inbox>>
sendVars == <<send, sendOther, sentItems>>

envVars == <<envConfigured, azureEnv, tokenCalls>>
workerVars == <<localStorage, isRunningRef, worker, invoked>>

vars == <<envVars, workerVars, now, email_history, contacts, notifications,
          pending_bounce_checks, sendVars, trackVars, bounceVars, replyVars, mailVars>>

(***************************************************************************)
(* getAccessToken: the provider token of each function.                    *)
(***************************************************************************)
Credentials == {"tenantId", "clientId", "clientSecret"}

\* the mail-specific and the generic variable of each credential
MailVariable ==
  [c \in Credentials |->
     CASE c = "tenantId" -> "AZURE_EMAIL_TENANT_ID"
       [] c = "clientId" -> "AZURE_EMAIL_CLIENT_ID"
       [] c = "clientSecret" -> "AZURE_EMAIL_CLIENT_SECRET"]

GenericVariable ==
  [c \in Credentials |->
     CASE c = "tenantId" -> "AZURE_TENANT_ID"
       [] c = "clientId" -> "AZURE_CLIENT_ID"
       [] c = "clientSecret" -> "AZURE_CLIENT_SECRET"]

AzureVariables == {MailVariable[c] : c \in Credentials} \cup {GenericVariable[c] : c \in Credentials}

\* the environments of the model: a variable is not set, or holds a value of its
\* own, written as its name
AzureEnvs == {e \in [AzureVariables -> AzureVariables \cup {NULL}] :
                \A v \in AzureVariables : e[v] \in {NULL, v}}

\* the functions that ask the provider for a token
TokenFunctions ==
  {"send-email", "process-bounce-checks", "process-email-replies", "sync-email-bounces"}

\* Deno.env.get(mail) || Deno.env.get(generic); send-email reads the
\* mail-specific variable only
CredentialOf(fn, c) ==
  IF fn = "send-email" THEN azureEnv[MailVariable[c]]
  ELSE IF azureEnv[MailVariable[c]] # NULL THEN azureEnv[MailVariable[c]]
  ELSE azureEnv[GenericVariable[c]]

NoTokenCall ==
  [result |-> "none", posts |-> 0, tenantId |-> NULL, clientId |-> NULL, clientSecret |-> NULL]

\* getAccessToken: a missing credential throws before any request; otherwise
\* the token request is posted with the three credentials (ok: the provider
\* answered with a token)
getAccessToken(fn, ok) ==
  IF \E c \in Credentials : CredentialOf(fn, c) = NULL
  THEN [NoTokenCall EXCEPT !.result = "not_configured"]
  ELSE [result |-> IF ok THEN "token" ELSE "request_failed", posts |-> 1,
        tenantId |-> CredentialOf(fn, "tenantId"),
        clientId |-> CredentialOf(fn, "clientId"),
        clientSecret |-> CredentialOf(fn, "clientSecret")]

\* the mail-specific credentials are set and no call has been looked at
AzureConfigured ==
  /\ azureEnv = [v \in AzureVariables |->
                   IF \E c \in Credentials : v = MailVariable[c] THEN v ELSE NULL]
  /\ tokenCalls = [fn \in TokenFunctions |-> NoTokenCall]

\* the row send-email inserts, with the column defaults of the migrations
NewEmailRow(contact_id, sent_by, at) ==
  [ status |-> "sent", sent_at |-> at, sent_by |-> sent_by, contact_id |-> contact_id,
    sender_email |-> SenderEmail, recipient_email |-> RecipientEmail,
    open_count |-> 0, unique_opens |-> 0, first_open_ip |-> NULL, opened_at |-> NoTime,
    is_valid_open |-> TRUE, bounce_type |-> NULL,
    message_id |-> NoMessageId, reply_count |-> 0, replied_at |-> NoTime, last_reply_at |-> NoTime ]

\* the bounced-state transition every bounce writer applies to the row
BouncedFields(bounceType) ==
  [ status |-> "bounced", bounce_type |-> bounceType, open_count |-> 0, unique_opens |-> 0,
    is_valid_open |-> FALSE, opened_at |-> NoTime ]

\* contact rows the linked contact may start from
ContactInits ==
  { [email_opens |-> 0, engagement_score |-> 0],
    [email_opens |-> 1, engagement_score |-> 98] }

PixelResponse == [status |-> 200, body |-> TRACKING_PIXEL]

NoResponse == [status |-> 0, body |-> NULL]

IdleTrack ==
  [ pc |-> "idle", id |-> NULL, ua |-> NoUserAgent, ip |-> NULL, ret |-> "none",
    response |-> NoResponse, at |-> NoTime,
    currentOpenCount |-> 0, currentUniqueOpens |-> 0,
    isFirstOpen |-> FALSE, isUniqueOpen |-> FALSE,
    firstOpenIP |-> NULL, sent_by |-> NULL, contact_id |-> NULL,
    newOpens |-> 0, newScore |-> 0, prevOpenAt |-> NoTime ]

IdleMark ==
  [ pc |-> "idle", bounceType |-> NULL, wasMarkedAsOpened |-> FALSE, contact_id |-> NULL,
    newOpens |-> 0, newScore |-> 0, status |-> 0 ]

\* fetchFailed is history, not a local of the handler: the senders whose mailbox
\* fetch failed in this run (the code only logs the failure)
IdleCheck ==
  [ pc |-> "idle", token |-> "none", sinceDate |-> NoTime, checks |-> <<>>, todo |-> {}, senderEmail |-> NULL,
    ndrs |-> {}, id |-> NULL, results |-> {}, processedPendingIds |-> {},
    bouncedPendingIds |-> {}, processedSenders |-> {}, fetchFailed |-> {}, status |-> 0 ]

IdleSync ==
  [ pc |-> "idle", contact_id |-> NULL, open_count |-> 0, newOpens |-> 0, newScore |-> 0,
    status |-> 0 ]

\* no URL has been built yet
NoUrl == [function |-> NULL, params |-> [id |-> NULL]]

IdleSend ==
  [ pc |-> "idle", userId |-> NULL, contactId |-> NULL, emailId |-> NULL,
    calls |-> 0, pixelUrl |-> NoUrl, provider |-> "none", messageId |-> NoMessageId, status |-> 0 ]

IdleReply ==
  [ pc |-> "idle", token |-> "none", message_id |-> NoMessageId, reply_count |-> 0, sent_by |-> NULL,
    replies |-> <<>>, idx |-> 0, status |-> 0 ]

\* the store some time after an email was sent at 0: its row is as inserted, or
\* has been written as bounced with one of the given types, and the contact
\* holds one of the given rows
InitStore(bounceTypes, contactRows) ==
  \/ /\ envConfigured = TRUE
     /\ \E c \in {NULL, ContactId}, u \in {NULL, UserId}, t \in bounceTypes :
          email_history =
            (EmailId :> IF t = NULL THEN NewEmailRow(c, u, 0)
                        ELSE BouncedFields(t) @@ NewEmailRow(c, u, 0))
     /\ \E row \in contactRows : contacts = (ContactId :> row)
  \/ \* without the store credentials no send-email call has inserted a row
     /\ envConfigured = FALSE
     /\ email_history = <<>>
     /\ contacts = <<>>

\* a runBounceCheck call that has not been made or has returned
IdleWorker == [pc |-> "idle", ret |-> "none"]

\* no tab has run the background worker yet
WorkersIdle ==
  /\ localStorage = NoTime
  /\ isRunningRef = [t \in Tabs |-> FALSE]
  /\ worker = [t \in Tabs |-> [k \in Calls |-> IdleWorker]]
  /\ invoked = {}

\* every handler is idle and nothing has been counted yet
HandlersIdle ==
  /\ track = [f \in Fetchers |-> IdleTrack]
  /\ fetches = 0
  /\ lastOpenFrom = [ip \in ClientIPs |-> NoTime]
  /\ openCredits = 0
  /\ mark = [m \in Markers |-> IdleMark]
  /\ check = [b \in Checkers |-> IdleCheck]
  /\ sync = [y \in Syncers |-> IdleSync]
  /\ bounceDebits = 0
  /\ send = IdleSend
  /\ sendOther = IdleSend
  /\ sentItems = <<>>
  /\ reply = [r \in Repliers |-> IdleReply]
  /\ WorkersIdle

NoNotifications == [email_opened |-> 0, email_bounced |-> 0, email_replied |-> 0]

\* an email was sent at 0; its Message-ID lookup found nothing, its bounce check
\* is gone and nothing has come back yet
Init(bounceTypes, contactRows) ==
  /\ InitStore(bounceTypes, contactRows)
  /\ now = 0
  /\ notifications = NoNotifications
  /\ pending_bounce_checks = <<>>
  /\ ndr = {}
  /\ email_replies = [g \in GraphIds |-> 0]
  /\ inbox = <<>>
  /\ AzureConfigured
  /\ HandlersIdle

Min(a, b) == IF a < b THEN a ELSE b

Max(a, b) == IF a > b THEN a ELSE b

\* a function's getAccessToken is called
GetAccessToken(fn, ok) ==
  /\ tokenCalls[fn].result = "none"
  /\ tokenCalls' = [tokenCalls EXCEPT ![fn] = getAccessToken(fn, ok)]
  /\ UNCHANGED <<envConfigured, azureEnv, workerVars, now, email_history, contacts, notifications,
                 pending_bounce_checks, sendVars, trackVars, bounceVars, replyVars, mailVars>>

\* the clock moves to the next of the instants
Tick(instants) ==
  /\ \E t \in instants :
       /\ t > now
       /\ \A u \in instants : u > now => t <= u
       /\ now' = t
  /\ UNCHANGED <<envVars, workerVars, email_history, contacts, notifications,
                 pending_bounce_checks, sendVars, trackVars, bounceVars, replyVars, mailVars>>

(***************************************************************************)
(* track-email-open handler.                                               *)
(***************************************************************************)
\* TrackReturn answering a failed request with an error status
TrackReturn_ErrorStatus(r, ret) ==
  [IdleTrack EXCEPT !.pc = "done", !.ret = ret,
                    !.response = IF ret \in {"exception", "fetch_error"}
                                 THEN [status |-> 500, body |-> NULL]
                                 ELSE PixelResponse]

\* every return statement of the handler: new Response(TRACKING_PIXEL, {headers})
TrackReturn(r, ret) == [IdleTrack EXCEPT !.pc = "done", !.ret = ret, !.response = PixelResponse]

\* .update(...).eq("id", id) on email_history
UpdateEmail(id, fields) ==
  IF id \in DOMAIN email_history
  THEN [email_history EXCEPT ![id] = fields @@ email_history[id]]
  ELSE email_history

TrackUnchanged ==
  UNCHANGED <<envVars, workerVars, now, pending_bounce_checks, sendVars, mailVars, bounceVars, replyVars>>

\* lines 127-161: the request arrives; the id, the agent and the client IP are read
TrackRequest(f, id, ua, h, budget) ==
  /\ track[f].pc = "idle"
  /\ fetches < budget
  /\ fetches' = fetches + 1
  /\ LET r == [IdleTrack EXCEPT !.id = id, !.ua = ua, !.ip = getClientIP(h)]
     IN track' = [track EXCEPT ![f] =
          IF id = NULL THEN TrackReturn(r, "no_id")
          ELSE IF ~envConfigured THEN TrackReturn(r, "exception")
          ELSE IF UserAgentIsBot[ua] THEN [r EXCEPT !.pc = "bot_update", !.ip = NULL]
          ELSE [r EXCEPT !.pc = "fetch"]]
  /\ UNCHANGED <<email_history, contacts, notifications, lastOpenFrom, openCredits>>
  /\ TrackUnchanged

\* lines 150-155: the bot branch marks the row and returns
TrackBotUpdate(f) ==
  /\ track[f].pc = "bot_update"
  /\ email_history' = UpdateEmail(track[f].id, [is_valid_open |-> FALSE])
  /\ track' = [track EXCEPT ![f] = TrackReturn(@, "bot")]
  /\ UNCHANGED <<contacts, notifications, fetches, lastOpenFrom, openCredits>>
  /\ TrackUnchanged

\* lines 197-218: is this open counted as unique
IsUniqueOpen(isFirstOpen, firstOpenIP, clientIP, opened_at, at) ==
  IF isFirstOpen THEN TRUE
  ELSE IF firstOpenIP # clientIP THEN TRUE
  ELSE IF opened_at # NoTime THEN at - opened_at > DEDUP_WINDOW_SECONDS
  ELSE FALSE

\* TooSoon comparing milliseconds with the threshold in seconds
TooSoon_Millis(secondsSinceSend) == secondsSinceSend * 1000 < MIN_OPEN_DELAY_SECONDS

\* line 186: the open came too soon after the send to be a person
TooSoon(secondsSinceSend) == secondsSinceSend < MIN_OPEN_DELAY_SECONDS

\* TrackFetch going on to count the open of a row whose bounce_type is set
TrackFetch_IgnoreBounce(f, ok) ==
  /\ track[f].pc = "fetch"
  /\ LET r == track[f]
         found == ok /\ r.id \in DOMAIN email_history
         emailData == email_history[r.id]
     IN IF ~found
        THEN /\ track' = [track EXCEPT ![f] = TrackReturn(r, "fetch_error")]
             /\ UNCHANGED lastOpenFrom
        ELSE IF TooSoon(now - emailData.sent_at)
        THEN /\ track' = [track EXCEPT ![f] = [r EXCEPT !.pc = "too_soon_update", !.at = now]]
             /\ UNCHANGED lastOpenFrom
        ELSE LET isFirstOpen == emailData.open_count = 0
             IN /\ track' = [track EXCEPT ![f] =
                      [r EXCEPT !.pc = "update", !.at = now,
                                !.currentOpenCount = emailData.open_count,
                                !.currentUniqueOpens = emailData.unique_opens,
                                !.isFirstOpen = isFirstOpen,
                                !.firstOpenIP = emailData.first_open_ip,
                                !.isUniqueOpen = IsUniqueOpen(isFirstOpen, emailData.first_open_ip,
                                                              r.ip, emailData.opened_at, now),
                                !.sent_by = emailData.sent_by,
                                !.contact_id = emailData.contact_id,
                                !.prevOpenAt = lastOpenFrom[r.ip]]]
                /\ lastOpenFrom' = [lastOpenFrom EXCEPT ![r.ip] = now]
  /\ UNCHANGED <<email_history, contacts, notifications, fetches, openCredits>>
  /\ TrackUnchanged

\* lines 164-218: the row is read (ok: the select returned it) and the open classified
TrackFetch(f, ok) ==
  /\ track[f].pc = "fetch"
  /\ LET r == track[f]
         found == ok /\ r.id \in DOMAIN email_history
         emailData == email_history[r.id]
     IN IF ~found
        THEN /\ track' = [track EXCEPT ![f] = TrackReturn(r, "fetch_error")]
             /\ UNCHANGED lastOpenFrom
        ELSE IF emailData.bounce_type # NULL
        THEN /\ track' = [track EXCEPT ![f] = TrackReturn(r, "bounced")]
             /\ UNCHANGED lastOpenFrom
        ELSE IF TooSoon(now - emailData.sent_at)
        THEN /\ track' = [track EXCEPT ![f] = [r EXCEPT !.pc = "too_soon_update", !.at = now]]
             /\ UNCHANGED lastOpenFrom
        ELSE LET isFirstOpen == emailData.open_count = 0
             IN /\ track' = [track EXCEPT ![f] =
                      [r EXCEPT !.pc = "update", !.at = now,
                                !.currentOpenCount = emailData.open_count,
                                !.currentUniqueOpens = emailData.unique_opens,
                                !.isFirstOpen = isFirstOpen,
                                !.firstOpenIP = emailData.first_open_ip,
                                !.isUniqueOpen = IsUniqueOpen(isFirstOpen, emailData.first_open_ip,
                                                              r.ip, emailData.opened_at, now),
                                !.sent_by = emailData.sent_by,
                                !.contact_id = emailData.contact_id,
                                !.prevOpenAt = lastOpenFrom[r.ip]]]
                /\ lastOpenFrom' = [lastOpenFrom EXCEPT ![r.ip] = now]
  /\ UNCHANGED <<email_history, contacts, notifications, fetches, openCredits>>
  /\ TrackUnchanged

\* lines 189-194: the too-soon branch marks the row and returns
TrackTooSoonUpdate(f) ==
  /\ track[f].pc = "too_soon_update"
  /\ email_history' = UpdateEmail(track[f].id, [is_valid_open |-> FALSE])
  /\ track' = [track EXCEPT ![f] = TrackReturn(@, "too_soon")]
  /\ UNCHANGED <<contacts, notifications, fetches, lastOpenFrom, openCredits>>
  /\ TrackUnchanged

\* updateData raising open_count only for an open counted as unique
UpdateData_UniqueOnly(r) ==
  [status |-> "opened", is_valid_open |-> TRUE,
   open_count |-> IF r.isUniqueOpen THEN r.currentOpenCount + 1 ELSE r.currentOpenCount]
  @@ (IF r.isFirstOpen THEN [opened_at |-> r.at, first_open_ip |-> r.ip] ELSE <<>>)
  @@ (IF r.isUniqueOpen THEN [unique_opens |-> r.currentUniqueOpens + 1] ELSE <<>>)

\* lines 221-234: updateData
UpdateData(r) ==
  [status |-> "opened", open_count |-> r.currentOpenCount + 1, is_valid_open |-> TRUE]
  @@ (IF r.isFirstOpen THEN [opened_at |-> r.at, first_open_ip |-> r.ip] ELSE <<>>)
  @@ (IF r.isUniqueOpen THEN [unique_opens |-> r.currentUniqueOpens + 1] ELSE <<>>)

\* lines 249-300: where the handler goes after the counter update
AfterUpdate(r) ==
  IF r.isFirstOpen /\ r.sent_by # NULL THEN [r EXCEPT !.pc = "notify"]
  ELSE IF r.isFirstOpen /\ r.contact_id # NULL THEN [r EXCEPT !.pc = "contact_read"]
  ELSE TrackReturn(r, "tracked")

\* TrackUpdate raising the stored open_count in the store instead of writing the
\* value computed from the earlier read
TrackUpdate_Atomic(f, ok) ==
  /\ track[f].pc = "update"
  /\ email_history' =
       IF ok /\ track[f].id \in DOMAIN email_history
       THEN UpdateEmail(track[f].id,
                        [open_count |-> email_history[track[f].id].open_count + 1]
                          @@ UpdateData(track[f]))
       ELSE email_history
  /\ track' = [track EXCEPT ![f] = AfterUpdate(@)]
  /\ UNCHANGED <<contacts, notifications, fetches, lastOpenFrom, openCredits>>
  /\ TrackUnchanged

\* lines 237-246: the counters are written from the values read earlier; updateError
\* is logged and the handler goes on
TrackUpdate(f, ok) ==
  /\ track[f].pc = "update"
  /\ email_history' = IF ok THEN UpdateEmail(track[f].id, UpdateData(track[f]))
                      ELSE email_history
  /\ track' = [track EXCEPT ![f] = AfterUpdate(@)]
  /\ UNCHANGED <<contacts, notifications, fetches, lastOpenFrom, openCredits>>
  /\ TrackUnchanged

\* lines 251-268: the email_opened notification of a first open; notifError is logged
TrackNotify(f, ok) ==
  /\ track[f].pc = "notify"
  /\ notifications' = IF ok THEN [notifications EXCEPT !.email_opened = @ + 1]
                      ELSE notifications
  /\ track' = [track EXCEPT ![f] =
       IF @.contact_id # NULL THEN [@ EXCEPT !.pc = "contact_read"]
       ELSE TrackReturn(@, "tracked")]
  /\ UNCHANGED <<email_history, contacts, fetches, lastOpenFrom, openCredits>>
  /\ TrackUnchanged

\* TrackContactRead adding 5 to engagement_score without the cap at 100
TrackContactRead_Uncapped(f, ok) ==
  /\ track[f].pc = "contact_read"
  /\ LET r == track[f]
         found == ok /\ r.contact_id \in DOMAIN contacts
         contact == contacts[r.contact_id]
     IN track' = [track EXCEPT ![f] =
          IF found
          THEN [r EXCEPT !.pc = "contact_write",
                         !.newOpens = contact.email_opens + 1,
                         !.newScore = contact.engagement_score + 5]
          ELSE TrackReturn(r, "tracked")]
  /\ UNCHANGED <<email_history, contacts, notifications, fetches, lastOpenFrom, openCredits>>
  /\ TrackUnchanged

\* lines 271-279: the linked contact is read (ok: the select returned it)
TrackContactRead(f, ok) ==
  /\ track[f].pc = "contact_read"
  /\ LET r == track[f]
         found == ok /\ r.contact_id \in DOMAIN contacts
         contact == contacts[r.contact_id]
     IN track' = [track EXCEPT ![f] =
          IF found
          THEN [r EXCEPT !.pc = "contact_write",
                         !.newOpens = contact.email_opens + 1,
                         !.newScore = Min(contact.engagement_score + 5, 100)]
          ELSE TrackReturn(r, "tracked")]
  /\ UNCHANGED <<email_history, contacts, notifications, fetches, lastOpenFrom, openCredits>>
  /\ TrackUnchanged

\* lines 281-302: the contact is written from the values read earlier
TrackContactWrite(f) ==
  /\ track[f].pc = "contact_write"
  /\ contacts' = [contacts EXCEPT ![track[f].contact_id] =
                    [email_opens |-> track[f].newOpens, engagement_score |-> track[f].newScore]]
  /\ openCredits' = IF contacts' # contacts THEN openCredits + 1 ELSE openCredits
  /\ track' = [track EXCEPT ![f] = TrackReturn(@, "tracked")]
  /\ UNCHANGED <<email_history, notifications, fetches, lastOpenFrom>>
  /\ TrackUnchanged

\* the response has been sent; the slot serves the next request
TrackClose(f) ==
  /\ track[f].pc = "done"
  /\ track' = [track EXCEPT ![f] = IdleTrack]
  /\ UNCHANGED <<email_history, contacts, notifications, fetches, lastOpenFrom, openCredits>>
  /\ TrackUnchanged

(***************************************************************************)
(* mark-email-bounced handler.                                             *)
(***************************************************************************)
MarkReturn(r, status) == [IdleMark EXCEPT !.pc = "done", !.status = status]

MarkUnchanged ==
  UNCHANGED <<envVars, workerVars, now, notifications, pending_bounce_checks, sendVars, mailVars,
              trackVars, replyVars, check, sync>>

\* lines 39-52: the call arrives; bounceType defaults to 'hard'
MarkRequest(m, emailId, bounceType) ==
  /\ mark[m].pc = "idle"
  /\ mark' = [mark EXCEPT ![m] =
       LET r == [IdleMark EXCEPT !.bounceType = bounceType]
       IN IF emailId = NULL THEN MarkReturn(r, 400)
          ELSE IF ~envConfigured THEN MarkReturn(r, 500)
          ELSE [r EXCEPT !.pc = "fetch"]]
  /\ UNCHANGED <<email_history, contacts, bounceDebits>>
  /\ MarkUnchanged

\* lines 55-69: the row is read (ok: the select returned it)
MarkFetch(m, ok) ==
  /\ mark[m].pc = "fetch"
  /\ LET r == mark[m]
         found == ok /\ EmailId \in DOMAIN email_history
         emailData == email_history[EmailId]
     IN mark' = [mark EXCEPT ![m] =
          IF ~found THEN MarkReturn(r, 404)
          ELSE [r EXCEPT !.pc = "update",
                         !.wasMarkedAsOpened = emailData.status = "opened" /\ emailData.open_count > 0,
                         !.contact_id = emailData.contact_id]]
  /\ UNCHANGED <<email_history, contacts, bounceDebits>>
  /\ MarkUnchanged

\* lines 72-95: the row is written as bounced, whatever it holds by now
MarkUpdate(m, ok) ==
  /\ mark[m].pc = "update"
  /\ LET r == mark[m]
         correct == r.wasMarkedAsOpened /\ r.contact_id # NULL
     IN /\ email_history' = IF ok THEN UpdateEmail(EmailId, BouncedFields(r.bounceType))
                             ELSE email_history
        /\ mark' = [mark EXCEPT ![m] =
             IF ~ok THEN MarkReturn(r, 500)
             ELSE IF correct THEN [r EXCEPT !.pc = "contact_read"]
             ELSE MarkReturn(r, 200)]
  /\ UNCHANGED <<contacts, bounceDebits>>
  /\ MarkUnchanged

\* lines 96-104: the linked contact is read (ok: the select returned it)
MarkContactRead(m, ok) ==
  /\ mark[m].pc = "contact_read"
  /\ LET r == mark[m]
         found == ok /\ r.contact_id \in DOMAIN contacts
         contact == contacts[r.contact_id]
         correct == found /\ contact.email_opens > 0
     IN /\ mark' = [mark EXCEPT ![m] =
             IF correct
             THEN [r EXCEPT !.pc = "contact_write",
                            !.newOpens = Max(contact.email_opens - 1, 0),
                            !.newScore = Max(contact.engagement_score - 5, 0)]
             ELSE MarkReturn(r, 200)]
  /\ UNCHANGED <<email_history, contacts, bounceDebits>>
  /\ MarkUnchanged

\* lines 106-127: the contact is written from the values read earlier
MarkContactWrite(m) ==
  /\ mark[m].pc = "contact_write"
  /\ contacts' = [contacts EXCEPT ![mark[m].contact_id] =
                    [email_opens |-> mark[m].newOpens, engagement_score |-> mark[m].newScore]]
  /\ bounceDebits' = IF contacts' # contacts THEN bounceDebits + 1 ELSE bounceDebits
  /\ mark' = [mark EXCEPT ![m] = MarkReturn(@, 200)]
  /\ UNCHANGED email_history
  /\ MarkUnchanged

\* one step of a mark-email-bounced call, its inputs drawn from the given sets
MarkStep(m, ids, types, oks) ==
  \/ \E id \in ids, t \in types : MarkRequest(m, id, t)
  \/ \E ok \in oks : MarkFetch(m, ok)
  \/ \E ok \in oks : MarkUpdate(m, ok)
  \/ \E ok \in oks : MarkContactRead(m, ok)
  \/ MarkContactWrite(m)

\* one step of a pixel request, its inputs drawn from the given sets
TrackStep(f, ids, uas, hdrs, oks, budget) ==
  \/ \E id \in ids, ua \in uas, h \in hdrs : TrackRequest(f, id, ua, h, budget)
  \/ TrackBotUpdate(f)
  \/ \E ok \in oks : TrackFetch(f, ok)
  \/ TrackTooSoonUpdate(f)
  \/ \E ok \in oks : TrackUpdate(f, ok)
  \/ \E ok \in oks : TrackNotify(f, ok)
  \/ \E ok \in oks : TrackContactRead(f, ok)
  \/ TrackContactWrite(f)
  \/ TrackClose(f)

(***************************************************************************)
(* send-email handler.                                                     *)
(***************************************************************************)
\* the response is returned; the record keeps what the request did
SendReturn(status) == [send EXCEPT !.pc = "done", !.status = status]

SendUnchanged ==
  UNCHANGED <<envVars, workerVars, now, contacts, notifications, mailVars, trackVars, bounceVars,
              replyVars, sendOther>>

\* lines 227-254: the request is read (valid: to, subject and from are given)
SendRequest(valid, userId, contactId) ==
  /\ send.pc = "idle"
  /\ EmailId \notin DOMAIN email_history
  /\ send' = IF ~valid THEN SendReturn(400)
             ELSE IF ~envConfigured THEN SendReturn(500)
             ELSE [send EXCEPT !.pc = "insert", !.userId = userId, !.contactId = contactId]
  /\ UNCHANGED <<email_history, pending_bounce_checks, sentItems>>
  /\ SendUnchanged

\* lines 259-288: the email_history row is inserted (ok: no insertError) and its
\* id kept as emailRecord.id; insertError is thrown
SendInsert(ok) ==
  /\ send.pc = "insert"
  /\ email_history' = IF ok THEN (EmailId :> NewEmailRow(send.contactId, send.userId, now))
                                 @@ email_history
                      ELSE email_history
  /\ send' = IF ok THEN [send EXCEPT !.pc = "send", !.emailId = EmailId] ELSE SendReturn(500)
  /\ UNCHANGED <<pending_bounce_checks, sentItems>>
  /\ SendUnchanged

\* lines 189-217: the message the provider keeps in Sent Items for a posted
\* mail, under the Message-ID it assigned to it
SentItem(emailHistoryId) ==
  [ internetMessageId |-> IF emailHistoryId = EmailId THEN MessageId ELSE OtherMessageId ]

\* lines 164-165: the tracking pixel URL of the body carries emailHistoryId
trackingPixelUrl(emailHistoryId) ==
  [function |-> "track-email-open", params |-> [id |-> emailHistoryId]]

\* url.searchParams.get("id") of the tracking endpoint
searchParamsId(url) == url.params.id

\* SendMail building the pixel URL from the linked entity's id
SendMail_EntityId(tokenOk, ok) ==
  /\ send.pc = "send"
  /\ send' = IF ~tokenOk THEN SendReturn(500)
             ELSE LET posted == [send EXCEPT !.calls = @ + 1,
                                             !.pixelUrl = trackingPixelUrl(send.contactId)]
                  IN IF ok THEN [posted EXCEPT !.pc = "lookup", !.provider = "accepted"]
                     ELSE [posted EXCEPT !.pc = "done", !.status = 500,
                                         !.provider = "rejected"]
  /\ sentItems' = IF tokenOk /\ ok THEN Append(sentItems, SentItem(send.emailId))
                  ELSE sentItems
  /\ UNCHANGED <<email_history, pending_bounce_checks>>
  /\ SendUnchanged

\* SendMail going on after the provider rejected the mail
SendMail_IgnoreRejection(tokenOk, ok) ==
  /\ send.pc = "send"
  /\ send' = IF ~tokenOk THEN SendReturn(500)
             ELSE [send EXCEPT !.calls = @ + 1,
                               !.pixelUrl = trackingPixelUrl(send.emailId),
                               !.pc = "lookup",
                               !.provider = IF ok THEN "accepted" ELSE "rejected"]
  /\ sentItems' = IF tokenOk /\ ok THEN Append(sentItems, SentItem(send.emailId))
                  ELSE sentItems
  /\ UNCHANGED <<email_history, pending_bounce_checks>>
  /\ SendUnchanged

\* lines 293-296, 153-217: the token is obtained (tokenOk) and the mail, with the
\* tracking pixel in its body, posted to the provider (ok: the provider accepted
\* it); either call throwing ends the request with the error response
SendMail(tokenOk, ok) ==
  /\ send.pc = "send"
  /\ send' = IF ~tokenOk THEN SendReturn(500)
             ELSE LET posted == [send EXCEPT !.calls = @ + 1,
                                             !.pixelUrl = trackingPixelUrl(send.emailId)]
                  IN IF ok THEN [posted EXCEPT !.pc = "lookup", !.provider = "accepted"]
                     ELSE [posted EXCEPT !.pc = "done", !.status = 500,
                                         !.provider = "rejected"]
  /\ sentItems' = IF tokenOk /\ ok THEN Append(sentItems, SentItem(send.emailId))
                  ELSE sentItems
  /\ UNCHANGED <<email_history, pending_bounce_checks>>
  /\ SendUnchanged

\* lines 299-319: after a second the Sent Items of the sender are asked for the
\* newest message with the subject ($top=1, sentDateTime desc); found: the
\* provider answered with a message
SendLookup(found) ==
  /\ send.pc = "lookup"
  /\ send' = [send EXCEPT !.pc = "backfill",
                          !.messageId =
                            IF found /\ sentItems # <<>>
                            THEN sentItems[Len(sentItems)].internetMessageId
                            ELSE NoMessageId]
  /\ UNCHANGED <<email_history, pending_bounce_checks, sentItems>>
  /\ SendUnchanged

\* lines 322-329: the row is written again; the result is not looked at
SendBackfill ==
  /\ send.pc = "backfill"
  /\ email_history' = UpdateEmail(send.emailId, [status |-> "sent", is_valid_open |-> TRUE,
                                                 message_id |-> send.messageId])
  /\ send' = [send EXCEPT !.pc = "enqueue"]
  /\ UNCHANGED <<pending_bounce_checks, sentItems>>
  /\ SendUnchanged

\* lines 334-342: the pending_bounce_checks row queued at the given instant,
\* with the column defaults of the migration
PendingRow(at) ==
  [ checked |-> FALSE, check_result |-> NULL, check_after |-> at + BOUNCE_CHECK_DELAY_SECONDS,
    created_at |-> at, sender_email |-> SenderEmail, recipient_email |-> RecipientEmail ]

\* lines 333-362: the bounce check is queued (ok: no queueError) and success returned
SendEnqueue(ok) ==
  /\ send.pc = "enqueue"
  /\ pending_bounce_checks' =
       IF ok THEN (send.emailId :> PendingRow(now)) @@ pending_bounce_checks
       ELSE pending_bounce_checks
  /\ send' = SendReturn(200)
  /\ UNCHANGED <<email_history, sentItems>>
  /\ SendUnchanged

\* one step of the send request, its inputs drawn from the given sets
SendStep(oks, users, links) ==
  \/ \E valid \in oks, u \in users, c \in links : SendRequest(valid, u, c)
  \/ \E ok \in oks : SendInsert(ok)
  \/ \E tokenOk \in oks, ok \in oks : SendMail(tokenOk, ok)
  \/ \E found \in BOOLEAN : SendLookup(found)
  \/ SendBackfill
  \/ \E ok \in oks : SendEnqueue(ok)


\* the runtime serves overlapping requests: it goes on with the other one
SendSwitch ==
  /\ send' = sendOther
  /\ sendOther' = send
  /\ send # sendOther
  /\ UNCHANGED <<envVars, workerVars, now, email_history, contacts, notifications, pending_bounce_checks,
                 sentItems, trackVars, bounceVars, replyVars, mailVars>>
(***************************************************************************)
(* process-email-replies handler.                                          *)
(***************************************************************************)
\* String.replace(/^<|>$/g, ''): a leading "<" and a trailing ">" are removed
stripBrackets(s) ==
  LET a == IF Len(s) > 0 /\ s[1] = "<" THEN SubSeq(s, 2, Len(s)) ELSE s
  IN IF Len(a) > 0 /\ a[Len(a)] = ">" THEN SubSeq(a, 1, Len(a) - 1) ELSE a

\* ReplyInfo taking the first token of References
ReplyInfo_FirstReference(msg) ==
  LET replyToMessageId ==
        IF msg.inReplyTo # <<>> THEN msg.inReplyTo
        ELSE IF msg.references # <<>> THEN msg.references[1]
        ELSE <<>>
  IN IF replyToMessageId = <<>> THEN <<>>
     ELSE << [ graph_message_id |-> msg.id, received_at |-> msg.received_at,
               in_reply_to |-> stripBrackets(replyToMessageId) ] >>

\* lines 75-100: the reply a mailbox message is read as, <<>> when it is skipped
ReplyInfo(msg) ==
  LET replyToMessageId ==
        IF msg.inReplyTo # <<>> THEN msg.inReplyTo
        ELSE IF msg.references # <<>> THEN msg.references[Len(msg.references)]
        ELSE <<>>
  IN IF replyToMessageId = <<>> THEN <<>>
     ELSE << [ graph_message_id |-> msg.id, received_at |-> msg.received_at,
               in_reply_to |-> stripBrackets(replyToMessageId) ] >>

RECURSIVE RepliesOf(_)
\* lines 50-111: fetchInboxReplies, over the messages the mailbox returned
RepliesOf(messages) ==
  IF messages = <<>> THEN <<>>
  ELSE ReplyInfo(Head(messages)) \o RepliesOf(Tail(messages))

\* lines 196-211: messageIdToEmail.get(in_reply_to) || .get(`<${in_reply_to}>`)
MatchesEmail(message_id, in_reply_to) ==
  LET keys == {message_id, stripBrackets(message_id)}
  IN in_reply_to \in keys \/ (<<"<">> \o in_reply_to \o <<">">>) \in keys

\* lines 214-219: .single() gives a row only when exactly one row matches
ExistingReply(graph_message_id) == email_replies[graph_message_id] = 1

ReplyReturn(status) == [IdleReply EXCEPT !.pc = "done", !.status = status]

ReplyUnchanged ==
  UNCHANGED <<envVars, workerVars, now, contacts, pending_bounce_checks, sendVars, mailVars, trackVars,
              bounceVars>>

\* lines 124-142: the client is created and the provider token obtained (tokenOk);
\* tokenError is answered with status 500
ReplyStart(r, tokenOk) ==
  /\ reply[r].pc = "idle"
  /\ reply' = [reply EXCEPT ![r] =
       IF ~envConfigured THEN ReplyReturn(500)
       ELSE IF ~tokenOk THEN [ReplyReturn(500) EXCEPT !.token = "failed"]
       ELSE [@ EXCEPT !.pc = "load", !.token = "obtained"]]
  /\ UNCHANGED <<email_history, notifications, email_replies>>
  /\ ReplyUnchanged

\* lines 144-175: the emails that can still be replied to are read
ReplyLoad(r, ok) ==
  /\ reply[r].pc = "load"
  /\ LET sinceDate == now - REPLY_LOOKBACK_SECONDS
         sentEmails == {id \in DOMAIN email_history :
                          /\ email_history[id].sent_at >= sinceDate
                          /\ email_history[id].message_id # NoMessageId
                          /\ email_history[id].status # "bounced"}
     IN reply' = [reply EXCEPT ![r] =
          IF ~ok THEN ReplyReturn(500)
          ELSE IF sentEmails = {} THEN ReplyReturn(200)
          ELSE [@ EXCEPT !.pc = "inbox",
                         !.message_id = email_history[EmailId].message_id,
                         !.reply_count = email_history[EmailId].reply_count,
                         !.sent_by = email_history[EmailId].sent_by]]
  /\ UNCHANGED <<email_history, notifications, email_replies>>
  /\ ReplyUnchanged

\* the loop of lines 205-288 moves on to the reply after idx
ReplyContinue(r) ==
  IF r.idx < Len(r.replies) THEN [r EXCEPT !.pc = "check", !.idx = @ + 1]
  ELSE ReplyReturn(200)

\* lines 190-192: the sender's inbox is fetched (ok: the provider answered)
ReplyInbox(r, ok) ==
  /\ reply[r].pc = "inbox"
  /\ reply' = [reply EXCEPT ![r] =
       ReplyContinue([@ EXCEPT !.replies = IF ok THEN RepliesOf(inbox) ELSE <<>>, !.idx = 0])]
  /\ UNCHANGED <<email_history, notifications, email_replies>>
  /\ ReplyUnchanged

\* lines 205-224: the reply is matched to the email and looked up in email_replies
ReplyCheck(r) ==
  /\ reply[r].pc = "check"
  /\ LET rr == reply[r]
         re == rr.replies[rr.idx]
     IN reply' = [reply EXCEPT ![r] =
          IF ~MatchesEmail(rr.message_id, re.in_reply_to) THEN ReplyContinue(rr)
          ELSE IF ExistingReply(re.graph_message_id) THEN ReplyContinue(rr)
          ELSE [rr EXCEPT !.pc = "insert"]]
  /\ UNCHANGED <<email_history, notifications, email_replies>>
  /\ ReplyUnchanged

\* lines 229-244: the reply row is inserted (ok: no insertError)
ReplyInsert(r, ok) ==
  /\ reply[r].pc = "insert"
  /\ LET rr == reply[r]
         g == rr.replies[rr.idx].graph_message_id
     IN /\ email_replies' = IF ok THEN [email_replies EXCEPT ![g] = @ + 1] ELSE email_replies
        /\ reply' = [reply EXCEPT ![r] =
             IF ok THEN [rr EXCEPT !.pc = "update"] ELSE ReplyContinue(rr)]
  /\ UNCHANGED <<email_history, notifications>>
  /\ ReplyUnchanged

\* lines 247-255: updateData, from the reply_count read when the run began
ReplyUpdateData(rr) ==
  LET received_at == rr.replies[rr.idx].received_at
  IN [reply_count |-> rr.reply_count + 1, last_reply_at |-> received_at, status |-> "replied"]
     @@ (IF rr.reply_count = 0 THEN [replied_at |-> received_at] ELSE <<>>)

\* lines 257-268: the email row is written (ok: no updateError)
ReplyUpdate(r, ok) ==
  /\ reply[r].pc = "update"
  /\ LET rr == reply[r]
     IN /\ email_history' = IF ok THEN UpdateEmail(EmailId, ReplyUpdateData(rr))
                             ELSE email_history
        /\ reply' = [reply EXCEPT ![r] =
             IF ~ok THEN ReplyContinue(rr)
             ELSE IF rr.sent_by # NULL THEN [rr EXCEPT !.pc = "notify"]
             ELSE ReplyContinue(rr)]
  /\ UNCHANGED <<notifications, email_replies>>
  /\ ReplyUnchanged

\* lines 271-288: the email_replied notification; notifError is logged
ReplyNotify(r, ok) ==
  /\ reply[r].pc = "notify"
  /\ notifications' = IF ok THEN [notifications EXCEPT !.email_replied = @ + 1]
                      ELSE notifications
  /\ reply' = [reply EXCEPT ![r] = ReplyContinue(@)]
  /\ UNCHANGED <<email_history, email_replies>>
  /\ ReplyUnchanged

\* one step of a reply-reconciliation run, its inputs drawn from the given set
ReplyStep(r, oks) ==
  \/ \E ok \in oks : ReplyStart(r, ok)
  \/ \E ok \in oks : ReplyLoad(r, ok)
  \/ \E ok \in oks : ReplyInbox(r, ok)
  \/ ReplyCheck(r)
  \/ \E ok \in oks : ReplyInsert(r, ok)
  \/ \E ok \in oks : ReplyUpdate(r, ok)
  \/ \E ok \in oks : ReplyNotify(r, ok)


\* the response has been sent; the scheduler invokes the function again
ReplyClose(r) ==
  /\ reply[r].pc = "done"
  /\ reply' = [reply EXCEPT ![r] = IdleReply]
  /\ UNCHANGED <<email_history, notifications, email_replies>>
  /\ ReplyUnchanged

\* a message arrives in the sender's inbox
ReplyArrives(msg) ==
  /\ \A i \in 1..Len(inbox) : inbox[i].id # msg.id
  /\ inbox' = Append(inbox, msg)
  /\ UNCHANGED <<envVars, workerVars, now, email_history, contacts, notifications,
                 pending_bounce_checks, sendVars, ndr, trackVars, replyVars, bounceVars>>
(***************************************************************************)
(* process-bounce-checks handler.                                          *)
(***************************************************************************)
CheckReturn(r, status) == [IdleCheck EXCEPT !.pc = "done", !.status = status]

CheckUnchanged ==
  UNCHANGED <<envVars, workerVars, now, contacts, sendVars, mailVars, trackVars, replyVars, mark, sync>>

\* CheckStart logging the token error and going on without a token
CheckStart_TokenIgnored(b, tokenOk) ==
  /\ check[b].pc = "idle"
  /\ check' = [check EXCEPT ![b] =
       IF ~envConfigured THEN CheckReturn(@, 500)
       ELSE [@ EXCEPT !.pc = "load_pending",
                      !.token = IF tokenOk THEN "obtained" ELSE "failed"]]
  /\ UNCHANGED <<email_history, notifications, pending_bounce_checks, bounceDebits>>
  /\ CheckUnchanged

\* lines 200-232: the client is created and the provider token obtained (tokenOk);
\* tokenError is answered with status 500
CheckStart(b, tokenOk) ==
  /\ check[b].pc = "idle"
  /\ check' = [check EXCEPT ![b] =
       IF ~envConfigured THEN CheckReturn(@, 500)
       ELSE IF ~tokenOk THEN [CheckReturn(@, 500) EXCEPT !.token = "failed"]
       ELSE [@ EXCEPT !.pc = "load_pending", !.token = "obtained"]]
  /\ UNCHANGED <<email_history, notifications, pending_bounce_checks, bounceDebits>>
  /\ CheckUnchanged

\* lines 123-188: the recipients named by the NDRs that fetchNDRsForSender finds
\* in the sender's mailbox (ok: the provider answered), lower-cased as
\* parseNDRContent returns them; a failed fetch yields the empty list
fetchNDRsForSender(ok, senderEmail, sinceDate) ==
  IF ok
  THEN {toLowerCase(n.recipient) :
          n \in {m \in ndr : m.sender = senderEmail /\ m.received_at >= sinceDate}}
  ELSE {}

\* lines 297-299, 407-409: matchingNDR is found for the recipient
matchingNDR(ndrs, recipient_email) == toLowerCase(recipient_email) \in ndrs

\* the rows of the run's batch that belong to the sender whose NDRs it holds
OfSender(r) == {id \in r.todo : r.checks[id].sender_email = r.senderEmail}

\* lines 360-373: which of the two check_result updates comes next, if any
ToMark(r) ==
  IF r.bouncedPendingIds # {} THEN [r EXCEPT !.pc = "mark_checked"]
  ELSE IF r.processedPendingIds # {} THEN [r EXCEPT !.pc = "mark_ok"]
  ELSE [r EXCEPT !.pc = "sweep_load"]

\* lines 286-358: where the pending pass goes on: the next matched check of the
\* sender, the next sender, or the check_result updates
AfterMatch(r) ==
  IF OfSender(r) # {} THEN [r EXCEPT !.pc = "bounce"]
  ELSE IF r.todo # {} THEN [r EXCEPT !.pc = "fetch_ndrs"]
  ELSE ToMark(r)

\* line 258: .limit(n) on a query without an order: any n of the rows, or all of
\* them when there are no more than n
limit(rows, n) == {batch \in SUBSET rows : Cardinality(batch) = Min(Cardinality(rows), n)}

\* lines 241-283: the due, unchecked rows are read with their email, PendingLimit
\* of them at most (ok: no pendingError), and grouped by sender; a row whose
\* email is gone or bounced is only noted as processed
CheckLoadPending(b, ok) ==
  /\ check[b].pc = "load_pending"
  /\ LET due == {id \in DOMAIN pending_bounce_checks :
                   /\ ~pending_bounce_checks[id].checked
                   /\ pending_bounce_checks[id].check_after <= now}
     IN \E pendingChecks \in (IF ok THEN limit(due, PendingLimit) ELSE {{}}) :
          LET r == check[b]
              skipped == {id \in pendingChecks :
                            \/ id \notin DOMAIN email_history
                            \/ email_history[id].status = "bounced"}
              grouped == pendingChecks \ skipped
          IN check' = [check EXCEPT ![b] =
               AfterMatch([r EXCEPT
                 !.sinceDate = now - NDR_LOOKBACK_SECONDS,
                 !.processedPendingIds = skipped,
                 !.todo = grouped,
                 !.checks = [id \in grouped |->
                               [sender_email |-> pending_bounce_checks[id].sender_email,
                                recipient_email |-> pending_bounce_checks[id].recipient_email,
                                sent_by |-> email_history[id].sent_by]]])]
  /\ UNCHANGED <<email_history, notifications, pending_bounce_checks, bounceDebits>>
  /\ CheckUnchanged

\* lines 286-300, 351-358: the NDRs of the next sender are fetched (ok: the
\* provider answered); its checks without a matching NDR are processed at once
CheckFetchNDRs(b, ok) ==
  /\ check[b].pc = "fetch_ndrs"
  /\ \E senderEmail \in {check[b].checks[id].sender_email : id \in check[b].todo} :
       LET r == check[b]
           ndrs == fetchNDRsForSender(ok, senderEmail, r.sinceDate)
           unmatched == {id \in r.todo :
                           /\ r.checks[id].sender_email = senderEmail
                           /\ ~matchingNDR(ndrs, r.checks[id].recipient_email)}
       IN check' = [check EXCEPT ![b] =
            AfterMatch([r EXCEPT !.senderEmail = senderEmail,
                                 !.ndrs = ndrs,
                                 !.fetchFailed = IF ok THEN @ ELSE @ \cup {senderEmail},
                                 !.processedSenders = @ \cup {senderEmail},
                                 !.todo = @ \ unmatched,
                                 !.processedPendingIds = @ \cup unmatched])]
  /\ UNCHANGED <<email_history, notifications, pending_bounce_checks, bounceDebits>>
  /\ CheckUnchanged

\* lines 301-323, 340-345, 358: the email of a matched check is written as
\* bounced (ok: no error) and the check noted as bounced; the match goes into
\* results either way
CheckBounce(b, ok) ==
  /\ check[b].pc = "bounce"
  /\ \E id \in OfSender(check[b]) :
       LET r == [check[b] EXCEPT !.id = id, !.todo = @ \ {id},
                                 !.results = @ \cup {id},
                                 !.processedPendingIds = @ \cup {id}]
       IN /\ email_history' = IF ok THEN UpdateEmail(id, BouncedFields("hard"))
                               ELSE email_history
          /\ check' = [check EXCEPT ![b] =
               IF ~ok THEN AfterMatch(r)
               ELSE IF r.checks[id].sent_by # NULL
               THEN [r EXCEPT !.pc = "notify", !.bouncedPendingIds = @ \cup {id}]
               ELSE AfterMatch([r EXCEPT !.bouncedPendingIds = @ \cup {id}])]
  /\ UNCHANGED <<notifications, pending_bounce_checks, bounceDebits>>
  /\ CheckUnchanged

\* lines 325-338: the email_bounced notification; notifError is logged
CheckNotify(b, ok) ==
  /\ check[b].pc = "notify"
  /\ notifications' = IF ok THEN [notifications EXCEPT !.email_bounced = @ + 1]
                      ELSE notifications
  /\ check' = [check EXCEPT ![b] = AfterMatch(@)]
  /\ UNCHANGED <<email_history, pending_bounce_checks, bounceDebits>>
  /\ CheckUnchanged

\* .update(fields).in('id', ids) on pending_bounce_checks
UpdatePending(ids, fields) ==
  [id \in DOMAIN pending_bounce_checks |->
     IF id \in ids THEN fields @@ pending_bounce_checks[id] ELSE pending_bounce_checks[id]]

\* CheckMarkChecked writing one result for the whole batch: 'bounced' for every
\* processed check as soon as one check of the batch bounced
CheckMarkChecked_BatchWide(b) ==
  /\ check[b].pc = "mark_checked"
  /\ pending_bounce_checks' =
       UpdatePending(check[b].processedPendingIds,
                     [checked |-> TRUE, check_result |-> "bounced"])
  /\ check' = [check EXCEPT ![b] = [@ EXCEPT !.pc = "sweep_load"]]
  /\ UNCHANGED <<email_history, notifications, bounceDebits>>
  /\ CheckUnchanged

\* lines 360-366: the checks noted as bounced are marked checked, result 'bounced'
CheckMarkChecked(b) ==
  /\ check[b].pc = "mark_checked"
  /\ pending_bounce_checks' =
       UpdatePending(check[b].bouncedPendingIds, [checked |-> TRUE, check_result |-> "bounced"])
  /\ check' = [check EXCEPT ![b] =
       IF @.processedPendingIds \ @.bouncedPendingIds # {} THEN [@ EXCEPT !.pc = "mark_ok"]
       ELSE [@ EXCEPT !.pc = "sweep_load"]]
  /\ UNCHANGED <<email_history, notifications, bounceDebits>>
  /\ CheckUnchanged

\* lines 368-373: the other processed checks are marked checked, result 'ok'
CheckMarkOk(b) ==
  /\ check[b].pc = "mark_ok"
  /\ pending_bounce_checks' =
       UpdatePending(check[b].processedPendingIds \ check[b].bouncedPendingIds,
                     [checked |-> TRUE, check_result |-> "ok"])
  /\ check' = [check EXCEPT ![b] = [@ EXCEPT !.pc = "sweep_load"]]
  /\ UNCHANGED <<email_history, notifications, bounceDebits>>
  /\ CheckUnchanged

\* lines 398-437: where the general sweep goes on: the next matched email of the
\* sender, the next sender, or the cleanup
AfterSweep(r) ==
  IF OfSender(r) # {} THEN [r EXCEPT !.pc = "sweep_bounce"]
  ELSE IF r.todo # {} THEN [r EXCEPT !.pc = "sweep_fetch"]
  ELSE [r EXCEPT !.pc = "cleanup"]

\* lines 379-404: the recent emails that are not bounced are read and grouped by
\* sender; a sender whose NDRs the pending pass fetched is skipped
SweepLoad(b) ==
  /\ check[b].pc = "sweep_load"
  /\ LET r == check[b]
         recentEmails == {id \in DOMAIN email_history :
                            /\ email_history[id].sent_at >= r.sinceDate
                            /\ email_history[id].status # "bounced"}
         swept == {id \in recentEmails :
                     email_history[id].sender_email \notin r.processedSenders}
     IN check' = [check EXCEPT ![b] =
          AfterSweep([r EXCEPT
            !.senderEmail = NULL,
            !.ndrs = {},
            !.todo = swept,
            !.checks = [id \in swept |->
                          [sender_email |-> email_history[id].sender_email,
                           recipient_email |-> email_history[id].recipient_email,
                           sent_by |-> email_history[id].sent_by]]])]
  /\ UNCHANGED <<email_history, notifications, pending_bounce_checks, bounceDebits>>
  /\ CheckUnchanged

\* lines 406-413: the NDRs of the next sender are fetched for the sweep; its
\* emails without a matching NDR are passed over
SweepFetch(b, ok) ==
  /\ check[b].pc = "sweep_fetch"
  /\ \E senderEmail \in {check[b].checks[id].sender_email : id \in check[b].todo} :
       LET r == check[b]
           ndrs == fetchNDRsForSender(ok, senderEmail, r.sinceDate)
           unmatched == {id \in r.todo :
                           /\ r.checks[id].sender_email = senderEmail
                           /\ ~matchingNDR(ndrs, r.checks[id].recipient_email)}
       IN check' = [check EXCEPT ![b] =
            AfterSweep([r EXCEPT !.senderEmail = senderEmail, !.ndrs = ndrs,
                                 !.fetchFailed = IF ok THEN @ ELSE @ \cup {senderEmail},
                                 !.todo = @ \ unmatched])]
  /\ UNCHANGED <<email_history, notifications, pending_bounce_checks, bounceDebits>>
  /\ CheckUnchanged

\* lines 415-434: the sweep writes a matched email as bounced, and nothing else
SweepBounce(b, ok) ==
  /\ check[b].pc = "sweep_bounce"
  /\ \E id \in OfSender(check[b]) :
       /\ email_history' = IF ok THEN UpdateEmail(id, BouncedFields("hard"))
                           ELSE email_history
       /\ check' = [check EXCEPT ![b] = AfterSweep([@ EXCEPT !.id = id, !.todo = @ \ {id}])]
  /\ UNCHANGED <<notifications, pending_bounce_checks, bounceDebits>>
  /\ CheckUnchanged

\* CheckCleanup deleting only the rows that were checked
CheckCleanup_CheckedOnly(b) ==
  /\ check[b].pc = "cleanup"
  /\ pending_bounce_checks' =
       LET kept == {id \in DOMAIN pending_bounce_checks :
                      ~(/\ pending_bounce_checks[id].created_at < now - CLEANUP_AGE_SECONDS
                        /\ pending_bounce_checks[id].checked)}
       IN [id \in kept |-> pending_bounce_checks[id]]
  /\ check' = [check EXCEPT ![b] = CheckReturn(@, 200)]
  /\ UNCHANGED <<email_history, notifications, bounceDebits>>
  /\ CheckUnchanged

\* lines 440-466: rows older than seven days are deleted and the run reports success
CheckCleanup(b) ==
  /\ check[b].pc = "cleanup"
  /\ pending_bounce_checks' =
       LET kept == {id \in DOMAIN pending_bounce_checks :
                      ~(pending_bounce_checks[id].created_at < now - CLEANUP_AGE_SECONDS)}
       IN [id \in kept |-> pending_bounce_checks[id]]
  /\ check' = [check EXCEPT ![b] = CheckReturn(@, 200)]
  /\ UNCHANGED <<email_history, notifications, bounceDebits>>
  /\ CheckUnchanged

\* the response has been sent; the scheduler invokes the function again
CheckClose(b) ==
  /\ check[b].pc = "done"
  /\ check' = [check EXCEPT ![b] = IdleCheck]
  /\ UNCHANGED <<email_history, notifications, pending_bounce_checks, bounceDebits>>
  /\ CheckUnchanged

\* one step of a process-bounce-checks run, its inputs drawn from the given set
CheckStep(b, oks) ==
  \/ \E ok \in oks : CheckStart(b, ok)
  \/ \E ok \in oks : CheckLoadPending(b, ok)
  \/ \E ok \in oks : CheckFetchNDRs(b, ok)
  \/ \E ok \in oks : CheckBounce(b, ok)
  \/ \E ok \in oks : CheckNotify(b, ok)
  \/ CheckMarkChecked(b)
  \/ CheckMarkOk(b)
  \/ SweepLoad(b)
  \/ \E ok \in oks : SweepFetch(b, ok)
  \/ \E ok \in oks : SweepBounce(b, ok)
  \/ CheckCleanup(b)

(***************************************************************************)
(* sync-email-bounces handler.                                             *)
(***************************************************************************)
SyncReturn(r, status) == [IdleSync EXCEPT !.pc = "done", !.status = status]

SyncUnchanged ==
  UNCHANGED <<envVars, workerVars, now, notifications, pending_bounce_checks, sendVars, mailVars,
              trackVars, replyVars, mark, check>>

\* lines 104-159: the caller is authenticated, the senders of the recent emails
\* that are not bounced are read and the provider token obtained
SyncStart(y, authorized, fromEmail, tokenOk) ==
  /\ sync[y].pc = "idle"
  /\ LET senderEmails == IF fromEmail THEN {EmailId}
                         ELSE {id \in DOMAIN email_history :
                                 email_history[id].status # "bounced"}
     IN sync' = [sync EXCEPT ![y] =
          IF ~envConfigured THEN SyncReturn(@, 500)
          ELSE IF ~authorized THEN SyncReturn(@, 401)
          ELSE IF senderEmails = {} THEN SyncReturn(@, 200)
          ELSE IF ~tokenOk THEN SyncReturn(@, 500)
          ELSE [@ EXCEPT !.pc = "fetch"]]
  /\ UNCHANGED <<email_history, contacts, bounceDebits>>
  /\ SyncUnchanged

\* lines 165-192: the sender's NDR messages are fetched (ok: the provider answered)
SyncFetch(y, ok) ==
  /\ sync[y].pc = "fetch"
  /\ sync' = [sync EXCEPT ![y] =
       IF fetchNDRsForSender(ok, SenderEmail, now - NDR_LOOKBACK_SECONDS) # {}
       THEN [@ EXCEPT !.pc = "match"] ELSE SyncReturn(@, 200)]
  /\ UNCHANGED <<email_history, contacts, bounceDebits>>
  /\ SyncUnchanged

\* lines 197-210: the emails to the NDR's recipient that are not bounced are read
SyncMatch(y) ==
  /\ sync[y].pc = "match"
  /\ LET matching == EmailId \in DOMAIN email_history
                     /\ email_history[EmailId].status # "bounced"
         email == email_history[EmailId]
     IN sync' = [sync EXCEPT ![y] =
          IF matching THEN [@ EXCEPT !.pc = "update", !.contact_id = email.contact_id,
                                     !.open_count = email.open_count]
          ELSE SyncReturn(@, 200)]
  /\ UNCHANGED <<email_history, contacts, bounceDebits>>
  /\ SyncUnchanged

\* lines 212-228: the email is written as bounced; the result is not looked at
SyncUpdate(y) ==
  /\ sync[y].pc = "update"
  /\ email_history' = UpdateEmail(EmailId, BouncedFields("hard"))
  /\ sync' = [sync EXCEPT ![y] =
       IF @.contact_id # NULL /\ @.open_count > 0 THEN [@ EXCEPT !.pc = "contact_read"]
       ELSE SyncReturn(@, 200)]
  /\ UNCHANGED <<contacts, bounceDebits>>
  /\ SyncUnchanged

\* lines 230-239: the linked contact is read (ok: the select returned it)
SyncContactRead(y, ok) ==
  /\ sync[y].pc = "contact_read"
  /\ LET r == sync[y]
         found == ok /\ r.contact_id \in DOMAIN contacts
         contact == contacts[r.contact_id]
     IN sync' = [sync EXCEPT ![y] =
          IF found
          THEN [r EXCEPT !.pc = "contact_write",
                         !.newOpens = Max(0, contact.email_opens - 1),
                         !.newScore = Max(0, contact.engagement_score - 10)]
          ELSE SyncReturn(r, 200)]
  /\ UNCHANGED <<email_history, contacts, bounceDebits>>
  /\ SyncUnchanged

\* lines 241-252: the contact is written from the values read earlier
SyncContactWrite(y) ==
  /\ sync[y].pc = "contact_write"
  /\ contacts' = [contacts EXCEPT ![sync[y].contact_id] =
                    [email_opens |-> sync[y].newOpens, engagement_score |-> sync[y].newScore]]
  /\ bounceDebits' = IF contacts' # contacts THEN bounceDebits + 1 ELSE bounceDebits
  /\ sync' = [sync EXCEPT ![y] = SyncReturn(@, 200)]
  /\ UNCHANGED email_history
  /\ SyncUnchanged

\* one step of a sync-email-bounces run, its inputs drawn from the given set
SyncStep(y, oks) ==
  \/ \E authorized \in oks, fromEmail \in BOOLEAN, tokenOk \in oks :
       SyncStart(y, authorized, fromEmail, tokenOk)
  \/ \E ok \in oks : SyncFetch(y, ok)
  \/ SyncMatch(y)
  \/ SyncUpdate(y)
  \/ \E ok \in oks : SyncContactRead(y, ok)
  \/ SyncContactWrite(y)

\* a non-delivery report naming the recipient arrives in the sender's mailbox
NdrArrivesFor(senderEmail, recipient) ==
  /\ \A n \in ndr : ~(n.sender = senderEmail /\ n.recipient = recipient)
  /\ ndr' = ndr \cup {[sender |-> senderEmail, recipient |-> recipient, received_at |-> now]}
  /\ UNCHANGED <<envVars, workerVars, now, email_history, contacts, notifications,
                 pending_bounce_checks, sendVars, inbox, trackVars, replyVars, bounceVars>>

\* the report for the email of the send request arrives
NdrArrives == NdrArrivesFor(SenderEmail, RecipientEmail)

(***************************************************************************)
(* parseNDRContent: the recipient an NDR body is read as.  A body is the   *)
(* sequence of its phrases that hold an address; the address stands in     *)
(* angle brackets or not.                                                  *)
(*   YourMessageTo     "Your message to X couldn't be delivered"           *)
(*   MessageTo         "The message to X couldn't be delivered"            *)
(*   CouldntDeliverTo  "couldn't deliver to X"                             *)
(*   ToHeader          "To: X"                                             *)
(*   Address           "X" somewhere else in the text                      *)
(***************************************************************************)
PhraseKinds == {"YourMessageTo", "MessageTo", "CouldntDeliverTo", "ToHeader", "Address"}

\* the addresses the bodies of the model name
NdrAddresses == {<<"A", "@", "x">>, <<"b", "@", "x">>}

NdrPhrases == [kind : PhraseKinds, addr : NdrAddresses, angle : BOOLEAN]

\* the copies of the parser in the repository
ParserCopies == {"process-bounce-checks", "sync-email-bounces", "Calculator"}

\* process-bounce-checks line 53: body.replace(/<[^>]*>/g, ' ') takes an address
\* in angle brackets out of the text; what is left of its phrase names no address
plainBody(body) == SelectSeq(body, LAMBDA p : ~p.angle)

\* emailPatterns of each copy, in the order they are tried.  DeliveryToFailed
\* (process-bounce-checks), CouldntBeDeliveredTo and DeliveryFailed
\* (sync-email-bounces) match none of the phrases above.
emailPatterns(copy) ==
  IF copy = "sync-email-bounces"
  THEN <<"ToHeader", "CouldntBeDeliveredTo", "DeliveryFailed", "AngleBrackets">>
  ELSE <<"YourMessageTo", "MessageTo", "CouldntDeliverTo", "ToHeader", "DeliveryToFailed",
         "AngleBrackets", "AnyAddress">>

\* does the regular expression match within the phrase; "message to X couldn't
\* be delivered" is part of "Your message to X couldn't be delivered", an
\* address in angle brackets is found in any phrase, an address in any phrase
PatternMatches(pattern, p) ==
  CASE pattern = "YourMessageTo" -> p.kind = "YourMessageTo"
    [] pattern = "MessageTo" -> p.kind \in {"YourMessageTo", "MessageTo"}
    [] pattern = "CouldntDeliverTo" -> p.kind = "CouldntDeliverTo"
    [] pattern = "ToHeader" -> p.kind = "ToHeader"
    [] pattern = "AngleBrackets" -> p.angle
    [] pattern = "AnyAddress" -> TRUE
    [] OTHER -> FALSE

\* String.prototype.match without the g flag: the leftmost match, 0 for null
match(text, pattern) ==
  IF \E i \in 1..Len(text) : PatternMatches(pattern, text[i])
  THEN CHOOSE i \in 1..Len(text) :
         /\ PatternMatches(pattern, text[i])
         /\ \A j \in 1..(i - 1) : ~PatternMatches(pattern, text[j])
  ELSE 0

\* parseNDRContent, recipientEmail: the first pattern that matches gives the
\* address, lower-cased; <<>> is null.  Only the process-bounce-checks copy
\* matches on plainBody.
parseNDRContent(copy, body) ==
  LET text == IF copy = "process-bounce-checks" THEN plainBody(body) ELSE body
      patterns == emailPatterns(copy)
      hits == {k \in 1..Len(patterns) : match(text, patterns[k]) # 0}
  IN IF hits = {} THEN <<>>
     ELSE LET k == CHOOSE h \in hits : \A g \in hits : h <= g
          IN toLowerCase(text[match(text, patterns[k])].addr)

\* a copy of the parser reads the NDR message in the sender's mailbox
ParseNdr(copy) ==
  /\ inbox # <<>>
  /\ \A n \in ndr : n.parser # copy
  /\ ndr' = ndr \cup {[sender |-> SenderEmail, parser |-> copy,
                       recipient |-> parseNDRContent(copy, inbox[1].body),
                       received_at |-> inbox[1].received_at]}
  /\ UNCHANGED <<envVars, workerVars, now, email_history, contacts, notifications,
                 pending_bounce_checks, sendVars, inbox, trackVars, replyVars, bounceVars>>

(***************************************************************************)
(* BounceCheckWorker: runBounceCheck, called in a tab by the initial       *)
(* timeout, the interval and the visibility change.  The calls of one tab  *)
(* run on one thread: the guards and the assignment to isRunningRef are    *)
(* one step.  The tabs run in parallel and localStorage has no lock: the   *)
(* getItem of a call and its setItem are separate steps.                   *)
(***************************************************************************)
WorkerUnchanged ==
  UNCHANGED <<envVars, now, email_history, contacts, notifications, pending_bounce_checks,
              sendVars, trackVars, bounceVars, replyVars, mailVars>>

\* the finally block: isRunningRef.current = false
WorkerFinally(t, k, ret) ==
  /\ isRunningRef' = [isRunningRef EXCEPT ![t] = FALSE]
  /\ worker' = [worker EXCEPT ![t][k] = [pc |-> "idle", ret |-> ret]]

\* lines 19-34: the call returns when a run is in progress in the tab or no
\* user is signed in, and when the time it reads from localStorage is less than
\* 2 minutes old; otherwise it sets isRunningRef
RunBounceCheck(t, k, user) ==
  /\ worker[t][k].pc = "idle"
  /\ IF isRunningRef[t] \/ ~user
     THEN /\ worker' = [worker EXCEPT ![t][k].ret = "skipped"]
          /\ UNCHANGED <<localStorage, isRunningRef>>
     ELSE IF localStorage # NoTime /\ now - localStorage < MIN_TIME_BETWEEN_CHECKS_SECONDS
     THEN /\ worker' = [worker EXCEPT ![t][k].ret = "recent"]
          /\ UNCHANGED <<localStorage, isRunningRef>>
     ELSE /\ isRunningRef' = [isRunningRef EXCEPT ![t] = TRUE]
          /\ worker' = [worker EXCEPT ![t][k] = [pc |-> "store", ret |-> "none"]]
          /\ UNCHANGED localStorage
  /\ UNCHANGED invoked
  /\ WorkerUnchanged

\* line 35: the time is stored in localStorage
WorkerStore(t, k) ==
  /\ worker[t][k].pc = "store"
  /\ localStorage' = now
  /\ worker' = [worker EXCEPT ![t][k].pc = "session"]
  /\ UNCHANGED <<isRunningRef, invoked>>
  /\ WorkerUnchanged

\* lines 40-44: getSession has answered (hasToken: with an access token);
\* without one the call returns through the finally block
WorkerSession(t, k, hasToken) ==
  /\ worker[t][k].pc = "session"
  /\ IF hasToken
     THEN /\ worker' = [worker EXCEPT ![t][k].pc = "bounce"]
          /\ UNCHANGED isRunningRef
     ELSE WorkerFinally(t, k, "nosession")
  /\ UNCHANGED <<localStorage, invoked>>
  /\ WorkerUnchanged

\* lines 47-52: process-bounce-checks is invoked
WorkerInvokeBounce(t, k) ==
  /\ worker[t][k].pc = "bounce"
  /\ invoked' = invoked \cup {[tab |-> t, at |-> now]}
  /\ worker' = [worker EXCEPT ![t][k].pc = "replies"]
  /\ UNCHANGED <<localStorage, isRunningRef>>
  /\ WorkerUnchanged

\* lines 54-65: its answer is logged and process-email-replies invoked
WorkerInvokeReplies(t, k) ==
  /\ worker[t][k].pc = "replies"
  /\ worker' = [worker EXCEPT ![t][k].pc = "finish"]
  /\ UNCHANGED <<localStorage, isRunningRef, invoked>>
  /\ WorkerUnchanged

\* lines 67-81: its answer is logged and the call ends through the finally block
WorkerFinish(t, k) ==
  /\ worker[t][k].pc = "finish"
  /\ WorkerFinally(t, k, "done")
  /\ UNCHANGED <<localStorage, invoked>>
  /\ WorkerUnchanged

\* one step of a runBounceCheck call of a tab
WorkerStep(t, k) ==
  \/ \E user \in BOOLEAN : RunBounceCheck(t, k, user)
  \/ WorkerStore(t, k)
  \/ \E hasToken \in BOOLEAN : WorkerSession(t, k, hasToken)
  \/ WorkerInvokeBounce(t, k)
  \/ WorkerInvokeReplies(t, k)
  \/ WorkerFinish(t, k)
(***************************************************************************)
(* Specifications.                                                         *)
(***************************************************************************)
\* Pixel requests of every kind, two at a time, around the minimum open delay,
\* on a row that is as sent or was bounced before.
TrackInstants == {0, 2, 5}

NextTrack ==
  \/ \E f \in Fetchers :
       TrackStep(f, {NULL, UnknownId, EmailId}, UserAgents,
                 {h \in RequestHeaders : h.real # NULL}, BOOLEAN, TrackFetches)
  \/ Tick(TrackInstants)

SpecTrack ==
  Init({NULL, "hard"}, {[email_opens |-> 1, engagement_score |-> 98]}) /\ [][NextTrack]_vars

\* Pixel requests served one at a time, every store call succeeding, across the
\* deduplication window.
DedupInstants == {0, 5, 10, 305, 306, 320, 330}

InitSequential ==
  /\ Init({NULL}, ContactInits)
  /\ envConfigured

NextSequential ==
  \/ TrackStep(1, {EmailId}, {UA_Browser, UA_Googlebot}, RequestHeaders, {TRUE}, MaxFetches)
  \/ Tick(DedupInstants)

SpecSequential == InitSequential /\ [][NextSequential]_vars

\* Pixel requests and bounce-mark calls on the same row, interleaved at every
\* record-store call, all within the deduplication window.
RaceInstants == {0, 10}

InitRace ==
  /\ Init({NULL}, ContactInits)
  /\ envConfigured
  /\ email_history[EmailId].contact_id = ContactId
  /\ email_history[EmailId].sent_by = UserId
  /\ contacts[ContactId].email_opens = 1

NextRace ==
  \/ \E f \in Fetchers :
       TrackStep(f, {EmailId}, {UA_Browser, UA_Googlebot}, RequestHeaders, {TRUE}, MaxFetches)
  \/ MarkStep(1, {EmailId}, {"hard", "soft"}, {TRUE})
  \/ Tick(RaceInstants)

SpecRace == InitRace /\ [][NextRace]_vars

\* Pixel requests for one email served concurrently, every store call
\* succeeding and nothing bouncing the row.
InitConcurrent ==
  /\ Init({NULL}, ContactInits)
  /\ envConfigured

NextConcurrent ==
  \/ \E f \in Fetchers :
       TrackStep(f, {EmailId}, {UA_Browser, UA_Googlebot}, RequestHeaders, {TRUE}, TrackFetches)
  \/ Tick(RaceInstants)

SpecConcurrent == InitConcurrent /\ [][NextConcurrent]_vars

\* the row of an email sent at 0 whose Message-ID was captured
SentRow == [NewEmailRow(ContactId, UserId, 0) EXCEPT !.message_id = MessageId]

\* the row after one person opened it at 10; the contact, credited for it, has
\* opened another email as well
OpenedRow ==
  [SentRow EXCEPT !.status = "opened", !.open_count = 1, !.unique_opens = 1,
                  !.opened_at = 10, !.first_open_ip = "ipA"]

\* the contact row before that open credited it (+1 email_opens, +5 engagement_score)
ContactBeforeOpen == [email_opens |-> 1, engagement_score |-> 10]

\* Bounce applications of every kind on the row of an opened email whose bounce
\* check is due or was done before the report came: bounce-mark calls, process-bounce-checks runs and
\* sync-email-bounces runs, interleaved at every record-store call.
InitBounce ==
  /\ envConfigured = TRUE
  /\ now = 60
  /\ email_history = (EmailId :> OpenedRow)
  /\ contacts = (ContactId :> [email_opens |-> 2, engagement_score |-> 15])
  /\ notifications = [NoNotifications EXCEPT !.email_opened = 1]
  /\ \E checked \in BOOLEAN :
       pending_bounce_checks =
         (EmailId :> [PendingRow(0) EXCEPT !.checked = checked,
                                          !.check_result = IF checked THEN "ok" ELSE NULL])
  /\ ndr \in {{}, {[sender |-> SenderEmail, recipient |-> RecipientEmail, received_at |-> 50]}}
  /\ email_replies = [g \in GraphIds |-> 0]
  /\ inbox = <<>>
  /\ AzureConfigured
  /\ HandlersIdle

NextBounce ==
  \/ \E m \in Markers : MarkStep(m, {EmailId}, {"hard"}, {TRUE})
  \/ \E b \in Checkers : CheckStep(b, {TRUE})
  \/ SyncStep(1, {TRUE})
  \/ NdrArrives

SpecBounce == InitBounce /\ [][NextBounce]_vars

\* messages in the sender's inbox: a reply naming the email in In-Reply-To, a
\* reply naming it last in References, a message that is no reply and a reply
\* to some other mail
Msg1 == [id |-> "g1", inReplyTo |-> MessageId, references |-> <<>>, received_at |-> 20]
Msg2 == [id |-> "g2", inReplyTo |-> <<>>, references |-> << <<"<","m","0",">">>, <<"m","1">> >>,
         received_at |-> 30]
Msg3 == [id |-> "g3", inReplyTo |-> <<>>, references |-> <<>>, received_at |-> 25]
Msg4 == [id |-> "g4", inReplyTo |-> <<"<","m","0",">">>, references |-> <<>>, received_at |-> 15]

Inboxes == { <<Msg1>>, <<Msg3, Msg4, Msg1>> }

\* Reply-reconciliation runs over the same inbox, sequential or overlapping,
\* with any of their store calls failing.
InitReply ==
  /\ envConfigured = TRUE
  /\ now = 60
  /\ \E u \in {NULL, UserId} : email_history = (EmailId :> [SentRow EXCEPT !.sent_by = u])
  /\ contacts = (ContactId :> [email_opens |-> 0, engagement_score |-> 0])
  /\ notifications = NoNotifications
  /\ pending_bounce_checks = <<>>
  /\ ndr = {}
  /\ email_replies = [g \in GraphIds |-> 0]
  /\ inbox \in Inboxes
  /\ AzureConfigured
  /\ HandlersIdle

NextReply == \E r \in Repliers : ReplyStep(r, BOOLEAN)

SpecReply == InitReply /\ [][NextReply]_vars

\* One email from its send request on: the send handler, a pixel request, a
\* reply-reconciliation run and the bounce writers all work on the same row,
\* interleaved at every record-store and provider call.
LifecycleInstants == {0, 50}

InitLifecycle ==
  /\ envConfigured = TRUE
  /\ now = 0
  /\ email_history = <<>>
  /\ contacts = (ContactId :> [email_opens |-> 0, engagement_score |-> 0])
  /\ notifications = NoNotifications
  /\ pending_bounce_checks = <<>>
  /\ ndr = {}
  /\ email_replies = [g \in GraphIds |-> 0]
  /\ inbox = <<Msg1>>
  /\ AzureConfigured
  /\ HandlersIdle

NextLifecycle ==
  \/ SendStep({TRUE}, {UserId}, {ContactId})
  \/ TrackStep(1, {EmailId}, {UA_Browser, UA_Googlebot},
               {[xff |-> <<>>, real |-> NULL, cf |-> "ipA"]}, {TRUE}, TrackFetches)
  \/ ReplyStep(1, {TRUE})
  \/ MarkStep(1, {EmailId}, {"hard"}, {TRUE})
  \/ CheckStep(1, {TRUE})
  \/ NdrArrives
  \/ Tick(LifecycleInstants)

SpecLifecycle == InitLifecycle /\ [][NextLifecycle]_vars


\* One send request, any of its store and provider calls failing.
SendInstants == {0, 1, 50}

NextSend ==
  \/ SendStep(BOOLEAN, {NULL, UserId}, {NULL, ContactId})
  \/ Tick(SendInstants)

SpecSend == InitLifecycle /\ [][NextSend]_vars

\* the recipient addresses as the reports in the model name them
NdrRecipients == {<<"r", "@", "x">>, OtherRecipient}

\* three emails sent at 0, two from one mailbox and one from another, each with
\* its bounce check due and not yet made
BatchEmails ==
  [id \in EmailIds |->
     IF id = "e1" THEN SentRow
     ELSE IF id = "e2" THEN [SentRow EXCEPT !.recipient_email = OtherRecipient]
     ELSE [SentRow EXCEPT !.sender_email = OtherSender, !.sent_by = NULL]]

BatchChecks ==
  [id \in EmailIds |->
     [PendingRow(0) EXCEPT !.sender_email = BatchEmails[id].sender_email,
                           !.recipient_email = BatchEmails[id].recipient_email]]

InitBatch ==
  /\ envConfigured = TRUE
  /\ now = 60
  /\ email_history = BatchEmails
  /\ contacts = (ContactId :> [email_opens |-> 0, engagement_score |-> 0])
  /\ notifications = NoNotifications
  /\ pending_bounce_checks = BatchChecks
  /\ ndr = {}
  /\ email_replies = [g \in GraphIds |-> 0]
  /\ inbox = <<>>
  /\ AzureConfigured
  /\ HandlersIdle

\* One process-bounce-checks run over a batch of several checks and senders,
\* any of its store and provider calls failing, while reports come in.
NextBatch ==
  \/ CheckStep(1, BOOLEAN)
  \/ \E s \in {SenderEmail, OtherSender}, r \in NdrRecipients : NdrArrivesFor(s, r)

SpecBatch == InitBatch /\ [][NextBatch]_vars

\* A process-bounce-checks run and a process-email-replies run with work to
\* do, the provider token and every store and provider call failing or not.
InitReconcile ==
  /\ envConfigured = TRUE
  /\ now = 60
  /\ email_history = (EmailId :> SentRow)
  /\ contacts = (ContactId :> [email_opens |-> 0, engagement_score |-> 0])
  /\ notifications = NoNotifications
  /\ pending_bounce_checks = (EmailId :> PendingRow(0))
  /\ ndr = {[sender |-> SenderEmail, recipient |-> RecipientEmail, received_at |-> 50]}
  /\ email_replies = [g \in GraphIds |-> 0]
  /\ inbox = <<Msg1>>
  /\ AzureConfigured
  /\ HandlersIdle

NextReconcile ==
  \/ CheckStep(1, BOOLEAN)
  \/ ReplyStep(1, BOOLEAN)

SpecReconcile == InitReconcile /\ [][NextReconcile]_vars

\* notifications counted before the sender's further emails go out unattributed
MaxNotified == 2

\* the sender's next email to the other recipient is sent, by a signed-in user
\* or not, and its bounce check falls due; the model uses the row e2 again for it
SendAnother ==
  /\ pending_bounce_checks["e2"].checked
  /\ \E u \in {NULL, UserId} :
       /\ u # NULL => notifications.email_bounced < MaxNotified
       /\ email_history' = [email_history EXCEPT !["e2"] = [BatchEmails["e2"] EXCEPT !.sent_by = u]]
  /\ pending_bounce_checks' = [pending_bounce_checks EXCEPT !["e2"] = BatchChecks["e2"]]
  /\ UNCHANGED <<envVars, workerVars, now, contacts, notifications, sendVars, mailVars, trackVars,
                 bounceVars, replyVars>>

\* Two emails of one sender: the bounce check of the first was made and found
\* nothing, the check of the second is due or was made as well.
InitSweep ==
  /\ envConfigured = TRUE
  /\ now = 60
  /\ email_history = [id \in {"e1", "e2"} |-> BatchEmails[id]]
  /\ contacts = (ContactId :> [email_opens |-> 0, engagement_score |-> 0])
  /\ notifications = NoNotifications
  /\ \E checked \in BOOLEAN :
       pending_bounce_checks =
         [id \in {"e1", "e2"} |->
            IF id = "e1" \/ checked
            THEN [BatchChecks[id] EXCEPT !.checked = TRUE, !.check_result = "ok"]
            ELSE BatchChecks[id]]
  /\ ndr = {}
  /\ email_replies = [g \in GraphIds |-> 0]
  /\ inbox = <<>>
  /\ AzureConfigured
  /\ HandlersIdle

\* one step of the process-bounce-checks run the scheduler keeps invoking
SweepRun == CheckStep(1, {TRUE}) \/ CheckClose(1)

NextSweep ==
  \/ SweepRun
  \/ \E r \in NdrRecipients : NdrArrivesFor(SenderEmail, r)
  \/ SendAnother

\* Repeated process-bounce-checks invocations, every call succeeding, while
\* reports come in late and the sender keeps sending: a run that can take a
\* step eventually takes it.
SpecSweep == InitSweep /\ [][NextSweep]_vars /\ WF_vars(SweepRun)

\* One bounce application from a given store: a bounce-mark call with the
\* default type, a process-bounce-checks run or a sync-email-bounces run, and
\* nothing else. The email was opened once (first_open_ip is set) or never.
InitOneBounce ==
  /\ envConfigured = TRUE
  /\ now = 60
  /\ \E row \in {SentRow, OpenedRow}, u \in {NULL, UserId} :
       email_history = (EmailId :> [row EXCEPT !.sent_by = u])
  /\ contacts = (ContactId :> [email_opens |-> 2, engagement_score |-> 15])
  /\ notifications = NoNotifications
  /\ \E checked \in BOOLEAN :
       pending_bounce_checks =
         (EmailId :> [PendingRow(0) EXCEPT !.checked = checked,
                                          !.check_result = IF checked THEN "ok" ELSE NULL])
  /\ ndr \in {{}, {[sender |-> SenderEmail, recipient |-> RecipientEmail, received_at |-> 50]}}
  /\ email_replies = [g \in GraphIds |-> 0]
  /\ inbox = <<>>
  /\ AzureConfigured
  /\ HandlersIdle

NextOneBounce ==
  \/ /\ check[1].pc = "idle" /\ sync[1].pc = "idle"
     /\ MarkStep(1, {EmailId}, {"hard"}, {TRUE})
  \/ /\ mark[1].pc = "idle" /\ sync[1].pc = "idle"
     /\ CheckStep(1, {TRUE})
  \/ /\ mark[1].pc = "idle" /\ check[1].pc = "idle"
     /\ SyncStep(1, {TRUE})

SpecOneBounce == InitOneBounce /\ [][NextOneBounce]_vars

\* Reply-reconciliation runs made one after the other, every call succeeding,
\* while messages arrive in the sender's inbox; two of them reply to the email.
InitReplies ==
  /\ envConfigured = TRUE
  /\ now = 60
  /\ \E u \in {NULL, UserId} : email_history = (EmailId :> [SentRow EXCEPT !.sent_by = u])
  /\ contacts = (ContactId :> [email_opens |-> 0, engagement_score |-> 0])
  /\ notifications = NoNotifications
  /\ pending_bounce_checks = <<>>
  /\ ndr = {}
  /\ email_replies = [g \in GraphIds |-> 0]
  /\ inbox = <<>>
  /\ AzureConfigured
  /\ HandlersIdle

NextReplies ==
  \/ ReplyStep(1, {TRUE})
  \/ ReplyClose(1)
  \/ \E msg \in {Msg1, Msg2, Msg3, Msg4} : ReplyArrives(msg)

SpecReplies == InitReplies /\ [][NextReplies]_vars

\* phrases in one NDR body
MaxPhrases == 2

NdrBodies == UNION {[1..n -> NdrPhrases] : n \in 0..MaxPhrases}

\* One NDR message in the sender's mailbox, its body any of the bodies, read by
\* each copy of the parser.
InitParse ==
  /\ envConfigured = TRUE
  /\ now = 60
  /\ email_history = (EmailId :> SentRow)
  /\ contacts = (ContactId :> [email_opens |-> 0, engagement_score |-> 0])
  /\ notifications = NoNotifications
  /\ pending_bounce_checks = <<>>
  /\ ndr = {}
  /\ email_replies = [g \in GraphIds |-> 0]
  /\ \E body \in NdrBodies : inbox = <<[id |-> "g1", body |-> body, received_at |-> 50]>>
  /\ AzureConfigured
  /\ HandlersIdle

NextParse == \E copy \in ParserCopies : ParseNdr(copy)

SpecParse == InitParse /\ [][NextParse]_vars

\* The getAccessToken of every function, called once in each environment: any of
\* the six Azure variables set or not, the provider answering or not.
InitToken ==
  /\ envConfigured = TRUE
  /\ now = 0
  /\ email_history = <<>>
  /\ contacts = (ContactId :> [email_opens |-> 0, engagement_score |-> 0])
  /\ notifications = NoNotifications
  /\ pending_bounce_checks = <<>>
  /\ ndr = {}
  /\ email_replies = [g \in GraphIds |-> 0]
  /\ inbox = <<>>
  /\ azureEnv \in AzureEnvs
  /\ tokenCalls = [fn \in TokenFunctions |-> NoTokenCall]
  /\ HandlersIdle

NextToken == \E fn \in TokenFunctions, ok \in BOOLEAN : GetAccessToken(fn, ok)

SpecToken == InitToken /\ [][NextToken]_vars

\* the instants of a run made long after the first sends
CleanupInstants == {700000, 700001}

\* Two emails of one sender, each sent eight days, exactly seven days or a
\* minute before the run, its bounce check made or not, and a report for the
\* first in the mailbox; one process-bounce-checks run with any of its store
\* and provider calls failing, while the clock moves on.
InitCleanup ==
  /\ envConfigured = TRUE
  /\ now = 700000
  /\ \E at \in [{"e1", "e2"} -> {700000 - CLEANUP_AGE_SECONDS - 86400,
                                700000 - CLEANUP_AGE_SECONDS, 700000 - 60}],
        checked \in [{"e1", "e2"} -> BOOLEAN] :
       /\ email_history = [id \in {"e1", "e2"} |-> [BatchEmails[id] EXCEPT !.sent_at = at[id]]]
       /\ pending_bounce_checks =
            [id \in {"e1", "e2"} |->
               [BatchChecks[id] EXCEPT !.created_at = at[id],
                                       !.check_after = at[id] + BOUNCE_CHECK_DELAY_SECONDS,
                                       !.checked = checked[id],
                                       !.check_result = IF checked[id] THEN "ok" ELSE NULL]]
  /\ contacts = (ContactId :> [email_opens |-> 0, engagement_score |-> 0])
  /\ notifications = NoNotifications
  /\ ndr = {[sender |-> SenderEmail, recipient |-> RecipientEmail, received_at |-> 699990]}
  /\ email_replies = [g \in GraphIds |-> 0]
  /\ inbox = <<>>
  /\ AzureConfigured
  /\ HandlersIdle

NextCleanup ==
  \/ CheckStep(1, BOOLEAN)
  \/ Tick(CleanupInstants)

SpecCleanup == InitCleanup /\ [][NextCleanup]_vars

\* contact rows at the edges of the range: a score the credit caps and scores
\* the corrections floor
EngagedContacts ==
  { [email_opens |-> 0, engagement_score |-> 3],
    [email_opens |-> 1, engagement_score |-> 98],
    [email_opens |-> 2, engagement_score |-> 100] }

\* Pixel requests, a bounce-mark call and a sync-email-bounces run on the row of
\* one email, opened before or not, interleaved at every record-store call.
InitEngage ==
  /\ envConfigured = TRUE
  /\ now = 0
  /\ email_history \in {(EmailId :> SentRow), (EmailId :> [OpenedRow EXCEPT !.opened_at = 0])}
  /\ contacts \in {(ContactId :> row) : row \in EngagedContacts}
  /\ notifications = NoNotifications
  /\ pending_bounce_checks = <<>>
  /\ ndr = {[sender |-> SenderEmail, recipient |-> RecipientEmail, received_at |-> 0]}
  /\ email_replies = [g \in GraphIds |-> 0]
  /\ inbox = <<>>
  /\ AzureConfigured
  /\ HandlersIdle

NextEngage ==
  \/ TrackStep(1, {EmailId}, {UA_Browser, UA_Googlebot},
               {[xff |-> <<>>, real |-> NULL, cf |-> "ipA"]}, {TRUE}, TrackFetches)
  \/ MarkStep(1, {EmailId}, {"hard"}, {TRUE})
  \/ SyncStep(1, {TRUE})
  \/ Tick(RaceInstants)

SpecEngage == InitEngage /\ [][NextEngage]_vars

\* One email with its Message-ID captured and a reply to it in the inbox: a
\* reply-reconciliation run and pixel requests for the email, every call
\* succeeding, in any order.
InitReplyOpen ==
  /\ envConfigured = TRUE
  /\ now = 0
  /\ email_history = (EmailId :> SentRow)
  /\ contacts = (ContactId :> [email_opens |-> 0, engagement_score |-> 0])
  /\ notifications = NoNotifications
  /\ pending_bounce_checks = <<>>
  /\ ndr = {}
  /\ email_replies = [g \in GraphIds |-> 0]
  /\ inbox \in Inboxes
  /\ AzureConfigured
  /\ HandlersIdle

NextReplyOpen ==
  \/ ReplyStep(1, {TRUE})
  \/ TrackStep(1, {EmailId}, {UA_Browser, UA_Googlebot}, RequestHeaders, {TRUE}, TrackFetches)
  \/ Tick(RaceInstants)

SpecReplyOpen == InitReplyOpen /\ [][NextReplyOpen]_vars


\* One reply-reconciliation run at a time over an inbox of two messages, the
\* email row being any of: sent just inside or outside the 7 days, with or
\* without a Message-ID (kept with or without its angle brackets), bounced,
\* opened or as sent.  Beside Msg1..Msg4 the inbox may hold a message naming
\* the email first, not last, in References, and one whose In-Reply-To names
\* another mail while References names the email.
Msg5 == [id |-> "g3", inReplyTo |-> <<>>, references |-> << <<"m","1">>, <<"<","m","0",">">> >>,
         received_at |-> 35]
Msg6 == [id |-> "g4", inReplyTo |-> <<"<","m","0",">">>, references |-> << MessageId >>,
         received_at |-> 40]

MatchInboxes ==
  {box \in [1..2 -> {Msg1, Msg2, Msg3, Msg4, Msg5, Msg6}] : box[1].id # box[2].id}

MatchRows ==
  {[SentRow EXCEPT !.status = st, !.message_id = mid, !.sent_at = at,
                   !.bounce_type = IF st = "bounced" THEN "hard" ELSE NULL] :
     st \in {"sent", "opened", "bounced"},
     mid \in {NoMessageId, MessageId, <<"m", "1">>},
     at \in {0, 10}}

InitMatch ==
  /\ envConfigured = TRUE
  /\ now \in {REPLY_LOOKBACK_SECONDS, REPLY_LOOKBACK_SECONDS + 5}
  /\ \E row \in MatchRows : email_history = (EmailId :> row)
  /\ contacts = (ContactId :> [email_opens |-> 0, engagement_score |-> 0])
  /\ notifications = NoNotifications
  /\ pending_bounce_checks = <<>>
  /\ ndr = {}
  /\ email_replies = [g \in GraphIds |-> 0]
  /\ inbox \in MatchInboxes
  /\ AzureConfigured
  /\ HandlersIdle

NextMatch ==
  \/ ReplyStep(1, BOOLEAN)
  \/ ReplyClose(1)

SpecMatch == InitMatch /\ [][NextMatch]_vars


\* Two send requests of one sender with the same subject, served in overlap:
\* both have inserted their rows (e1 and e2) and go on from the sendMail call,
\* the runtime switching between them at any await.
AfterInsert(emailHistoryId) ==
  [IdleSend EXCEPT !.pc = "send", !.userId = UserId, !.contactId = ContactId,
                   !.emailId = emailHistoryId]

InitOverlap ==
  /\ envConfigured = TRUE
  /\ now = 0
  /\ email_history = (EmailId :> NewEmailRow(ContactId, UserId, 0))
                     @@ ("e2" :> NewEmailRow(ContactId, UserId, 0))
  /\ contacts = (ContactId :> [email_opens |-> 0, engagement_score |-> 0])
  /\ notifications = NoNotifications
  /\ pending_bounce_checks = <<>>
  /\ ndr = {}
  /\ email_replies = [g \in GraphIds |-> 0]
  /\ inbox = <<>>
  /\ AzureConfigured
  /\ track = [f \in Fetchers |-> IdleTrack]
  /\ fetches = 0
  /\ lastOpenFrom = [ip \in ClientIPs |-> NoTime]
  /\ openCredits = 0
  /\ mark = [m \in Markers |-> IdleMark]
  /\ check = [b \in Checkers |-> IdleCheck]
  /\ sync = [y \in Syncers |-> IdleSync]
  /\ bounceDebits = 0
  /\ reply = [r \in Repliers |-> IdleReply]
  /\ send = AfterInsert(EmailId)
  /\ sendOther = AfterInsert("e2")
  /\ sentItems = <<>>
  /\ WorkersIdle

NextOverlap ==
  \/ \E tokenOk \in BOOLEAN, ok \in BOOLEAN : SendMail(tokenOk, ok)
  \/ \E found \in BOOLEAN : SendLookup(found)
  \/ SendBackfill
  \/ \E ok \in BOOLEAN : SendEnqueue(ok)
  \/ SendSwitch

SpecOverlap == InitOverlap /\ [][NextOverlap]_vars


\* More bounce checks due than one run reads: four emails of one sender, sent
\* at 0, each with its check due and not made.
BacklogIds == EmailIds \cup {"e4"}

\* the sender's next email is sent, by no signed-in user, and 45 seconds later
\* its bounce check is due; the model uses a row whose check was made again for
\* it
SendNext(id) ==
  /\ id \in DOMAIN pending_bounce_checks
  /\ pending_bounce_checks[id].checked
  /\ email_history' =
       [email_history EXCEPT ![id] =
          [SentRow EXCEPT !.sent_by = NULL, !.sent_at = now - BOUNCE_CHECK_DELAY_SECONDS]]
  /\ pending_bounce_checks' =
       [pending_bounce_checks EXCEPT ![id] = PendingRow(now - BOUNCE_CHECK_DELAY_SECONDS)]
  /\ UNCHANGED <<envVars, workerVars, now, contacts, notifications, sendVars, mailVars, trackVars,
                 bounceVars, replyVars>>

InitBacklog ==
  /\ envConfigured = TRUE
  /\ now = 60
  /\ email_history = [id \in BacklogIds |-> SentRow]
  /\ contacts = (ContactId :> [email_opens |-> 0, engagement_score |-> 0])
  /\ notifications = NoNotifications
  /\ pending_bounce_checks = [id \in BacklogIds |-> PendingRow(0)]
  /\ ndr = {}
  /\ email_replies = [g \in GraphIds |-> 0]
  /\ inbox = <<>>
  /\ AzureConfigured
  /\ HandlersIdle

\* one step of the process-bounce-checks run the scheduler keeps invoking
BacklogRun == CheckStep(1, {TRUE}) \/ CheckClose(1)

NextBacklog ==
  \/ BacklogRun
  \/ \E id \in BacklogIds \ {EmailId} : SendNext(id)
  \/ NdrArrives

\* Repeated process-bounce-checks invocations, the token obtained and every call
\* succeeding, while the sender keeps sending: a run that can take a step
\* eventually takes it.
SpecBacklog == InitBacklog /\ [][NextBacklog]_vars /\ WF_vars(BacklogRun)


\* The background worker in two tabs of one browser, each tab calling
\* runBounceCheck at any time, while the clock goes on.
WorkerInstants == {0, 5, 120}

InitWorker ==
  /\ envConfigured = TRUE
  /\ now = 0
  /\ email_history = <<>>
  /\ contacts = (ContactId :> [email_opens |-> 0, engagement_score |-> 0])
  /\ notifications = NoNotifications
  /\ pending_bounce_checks = <<>>
  /\ ndr = {}
  /\ email_replies = [g \in GraphIds |-> 0]
  /\ inbox = <<>>
  /\ AzureConfigured
  /\ HandlersIdle

NextWorker ==
  \/ \E t \in Tabs, k \in Calls : WorkerStep(t, k)
  \/ Tick(WorkerInstants)

SpecWorker == InitWorker /\ [][NextWorker]_vars
(***************************************************************************)
(* Properties.                                                             *)
(***************************************************************************)
\* C1: once the status of a row has been written as 'bounced', no later write
\* of a pixel request, a reply-reconciliation run, the send handler's back-fill
\* or a bounce writer changes it to 'opened', 'replied' or 'sent'.
BouncedIsSticky ==
  [][\A id \in DOMAIN email_history :
       email_history[id].status = "bounced"
         => email_history'[id].status \notin {"opened", "replied", "sent"}]_vars

\* C2: in every reachable state, under any interleaving of pixel requests and
\* bounce writes on the same row, unique_opens <= open_count.
UniqueOpensWithinOpenCount ==
  \A id \in DOMAIN email_history :
    email_history[id].unique_opens <= email_history[id].open_count

\* C3: in every reachable state a row whose bounce_type is set has
\* open_count = 0, unique_opens = 0 and opened_at cleared.
BouncedRowHasNoOpens ==
  \A id \in DOMAIN email_history :
    email_history[id].bounce_type # NULL
      => /\ email_history[id].open_count = 0
         /\ email_history[id].unique_opens = 0
         /\ email_history[id].opened_at = NoTime

\* C4: however often a bounce match is applied to the same email (bounce-mark
\* calls, process-bounce-checks runs, sync-email-bounces runs), the linked
\* contact's email_opens and engagement_score are corrected at most once and at
\* most one email_bounced notification is inserted.
BounceAppliedOnce ==
  /\ bounceDebits <= 1
  /\ notifications.email_bounced <= 1

\* C5: whatever reply-reconciliation runs have seen the same provider message
\* id for the same email, sequential or overlapping, email_replies never holds
\* more than one row with that (email_history_id, graph_message_id) pair.
ReplyRecordedOnce == \A g \in GraphIds : email_replies[g] <= 1

\* the agents of the model that are missing or contain a listed bot signature
\* in some letter case: "googlebot" and "outlookproxy" are on the list
BotAgents == {NoUserAgent, UA_Googlebot, UA_GooglebotMixed, UA_OutlookProxy}

OpenColumns(row) ==
  <<row.open_count, row.unique_opens, row.opened_at, row.first_open_ip, row.status>>

BotInFlight(t) == t.pc \notin {"idle", "done"} /\ t.ua \in BotAgents

PrematureInFlight(t) ==
  /\ t.pc \notin {"idle", "done"}
  /\ t.at # NoTime
  /\ t.at - email_history[t.id].sent_at < 5

AlwaysPixel ==
  \A f \in Fetchers :
    track[f].pc = "done" => track[f].response = [status |-> 200, body |-> TRACKING_PIXEL]

\* C8 witness: a request that found its row bounced and one whose row read
\* failed have both been answered with 200 and the GIF.
ErrorPathsAnswered ==
  \E f, g \in Fetchers :
    /\ track[f].ret = "bounced"
    /\ track[g].ret = "fetch_error"
    /\ track[f].response.status = 200 /\ track[f].response.body = TRACKING_PIXEL
    /\ track[g].response.status = 200 /\ track[g].response.body = TRACKING_PIXEL

\* C9: for a qualifying open on a row that already has open_count > 0, an IP
\* other than first_open_ip counts as unique, and first_open_ip counts as
\* unique only when that IP's previous open was more than 300 seconds earlier.
UniqueOnlyOutsideWindow ==
  \A f \in Fetchers :
    (track[f].pc = "update" /\ track[f].currentOpenCount > 0)
      => IF track[f].firstOpenIP # track[f].ip
         THEN track[f].isUniqueOpen
         ELSE track[f].isUniqueOpen
                => /\ track[f].prevOpenAt # NoTime
                   /\ track[f].at - track[f].prevOpenAt > 300

\* C10: over any sequence or interleaving of pixel requests for one email the
\* email_opened notification is inserted at most once and the linked contact is
\* credited at most once.
FirstOpenEffectsOnce ==
  /\ notifications.email_opened <= 1
  /\ openCredits <= 1


\* C11: when the qualifying pixel requests of one email (non-bot, at least 5 s
\* after the send, row not bounced) are served one at a time and every store
\* update succeeds, open_count starts at 0, the counter update of each such
\* request raises it by exactly one and leaves status 'opened', and no other
\* step changes it: after n such requests open_count = n and status = 'opened'.
SequentialOpensCounted ==
  /\ email_history[EmailId].open_count = 0
  /\ [][/\ (track[1].pc = "update" /\ track'[1].pc # "update")
             => /\ email_history'[EmailId].open_count = email_history[EmailId].open_count + 1
                /\ email_history'[EmailId].status = "opened"
        /\ email_history'[EmailId].open_count # email_history[EmailId].open_count
             => track[1].pc = "update"]_vars

\* C11 witness: exactly three requests were made, all qualifying, and the third
\* has been answered: open_count = 3, two of them counted unique, status 'opened'.
ThreeOpensCounted ==
  /\ fetches = 3
  /\ track[1].pc = "done" /\ track[1].ret = "tracked"
  /\ email_history[EmailId].open_count = 3
  /\ email_history[EmailId].unique_opens = 2
  /\ email_history[EmailId].status = "opened"

\* C12: two pixel requests for the same email that are served concurrently can
\* both read open_count = 0 and both write open_count = 1. The counter update
\* of a request writes the open_count it read plus one, whatever the row holds
\* by then; the witness is the state the claim says is reachable.
CounterWrittenFromRead ==
  [][\A f \in Fetchers :
       (track[f].pc = "update" /\ track'[f].pc # "update")
         => email_history'[EmailId].open_count = track[f].currentOpenCount + 1]_vars

\* C12 witness: exactly two requests were made, both qualifying, both have been
\* answered, the row was not bounced, and open_count = 1.
TwoOpensCountedOnce ==
  /\ fetches = 2
  /\ \A f \in {1, 2} : track[f].pc = "done" /\ track[f].ret = "tracked"
  /\ email_history[EmailId].bounce_type = NULL
  /\ email_history[EmailId].status = "opened"
  /\ email_history[EmailId].open_count = 1

\* C13: in the send handler the row is inserted, and its id known, before the
\* mail-send call is issued, and the tracking-pixel URL of the sent body
\* carries the id of exactly that row; if the insert fails no mail-send call is
\* made.
RowInsertedBeforeMail ==
  /\ [](EmailId \notin DOMAIN email_history => send.calls = 0)
  /\ [][send'.calls # send.calls
          => /\ send.emailId # NULL
             /\ send.emailId \in DOMAIN email_history
             /\ searchParamsId(send'.pixelUrl) = send.emailId]_vars

\* C13 witness: the mail was posted once, after the row was inserted, with the
\* row's id in its pixel URL.
MailPostedWithRowId ==
  /\ send.pc = "lookup"
  /\ send.calls = 1
  /\ EmailId \in DOMAIN email_history
  /\ searchParamsId(send.pixelUrl) = EmailId

\* C14: when the mail-send call is rejected, the send handler returns an error
\* response, the row inserted for that request still exists with status 'sent',
\* and no pending_bounce_checks row is created for it.
RejectedSendLeavesRow ==
  send.provider = "rejected"
    => /\ send.pc = "done"
       /\ send.status >= 400
       /\ send.emailId \in DOMAIN email_history
       /\ email_history[send.emailId].status = "sent"
       /\ send.emailId \notin DOMAIN pending_bounce_checks

\* C14 witness: the provider rejected the mail 50 s after the request came in;
\* the request ended with 500, its row is there as inserted and no check is queued.
RejectedSendAnswered ==
  /\ send.provider = "rejected"
  /\ now = 50
  /\ send.status = 500
  /\ send.calls = 1
  /\ email_history[EmailId].status = "sent"
  /\ pending_bounce_checks = <<>>

\* C15: every send request that returns success has created exactly one
\* email_history row, issued exactly one mail-send call, and created exactly one
\* pending_bounce_checks row that references that row with checked = false and
\* check_after = enqueue time + 45 seconds.
SuccessfulSendEffects ==
  (send.pc = "done" /\ send.status = 200)
    => /\ DOMAIN email_history = {send.emailId}
       /\ send.calls = 1
       /\ DOMAIN pending_bounce_checks = {send.emailId}
       /\ pending_bounce_checks[send.emailId].checked = FALSE
       /\ pending_bounce_checks[send.emailId].check_after
            = pending_bounce_checks[send.emailId].created_at + 45

\* C16: once a pending_bounce_checks row has checked = true, no later or
\* concurrently running process-bounce-checks run processes it again: its
\* checked and check_result fields never change afterwards and no run writes a
\* bounce or inserts a notification on its behalf.
CheckedIsFinal ==
  [][\A id \in DOMAIN pending_bounce_checks :
       pending_bounce_checks[id].checked
         => /\ id \in DOMAIN pending_bounce_checks'
                => /\ pending_bounce_checks'[id].checked
                   /\ pending_bounce_checks'[id].check_result
                        = pending_bounce_checks[id].check_result
            /\ \A b \in Checkers :
                 /\ (check[b].pc = "bounce" /\ check'[b] # check[b]) => check'[b].id # id
                 /\ (check[b].pc = "notify" /\ check'[b] # check[b]) => check[b].id # id]_vars

\* a report naming the recipient of the check is in its sender's mailbox
OwnNdr(id) ==
  \E n \in ndr :
    /\ n.sender = pending_bounce_checks[id].sender_email
    /\ toLowerCase(n.recipient) = toLowerCase(pending_bounce_checks[id].recipient_email)

FailedSenderSkipped ==
  [][(check[1].pc = "cleanup" /\ check'[1].pc = "done")
       => /\ check'[1].status = 200
          /\ \A id \in DOMAIN pending_bounce_checks' :
               pending_bounce_checks'[id].sender_email \in check[1].fetchFailed
                 => /\ pending_bounce_checks'[id] = BatchChecks[id]
                    /\ email_history'[id] = BatchEmails[id]]_vars

\* the tables a reconciliation run writes to
ReconciledTables ==
  <<email_history, pending_bounce_checks, email_replies, contacts, notifications>>

\* C18: if the provider token cannot be obtained, a process-bounce-checks or
\* process-email-replies run returns a non-200 error and performs no write to
\* email_history, pending_bounce_checks, email_replies, contacts or
\* notifications: the run ends in the step that failed to get the token, and
\* that step leaves the tables as they are.
TokenFailureWritesNothing ==
  /\ [](\A b \in Checkers :
          check[b].token = "failed" => check[b].pc = "done" /\ check[b].status >= 400)
  /\ [](\A r \in Repliers :
          reply[r].token = "failed" => reply[r].pc = "done" /\ reply[r].status >= 400)
  /\ [][\A b \in Checkers :
          (check'[b] # check[b] /\ (check[b].token = "failed" \/ check'[b].token = "failed"))
            => /\ check[b].pc = "idle"
               /\ ReconciledTables' = ReconciledTables]_vars
  /\ [][\A r \in Repliers :
          (reply'[r] # reply[r] /\ (reply[r].token = "failed" \/ reply'[r].token = "failed"))
            => /\ reply[r].pc = "idle"
               /\ ReconciledTables' = ReconciledTables]_vars

\* C18 witness: both runs failed to get the token and ended with 500; the due
\* check, the email and the reply in the inbox are untouched.
BothRunsRefused ==
  /\ check[1].token = "failed" /\ check[1].status = 500
  /\ reply[1].token = "failed" /\ reply[1].status = 500
  /\ pending_bounce_checks[EmailId].checked = FALSE
  /\ email_history[EmailId] = SentRow
  /\ email_replies["g1"] = 0

\* C20: if a report naming an email's recipient arrives in the sender's mailbox
\* after that email's pending check completed with check_result = 'ok' and
\* within 72 hours of the send, then under repeated process-bounce-checks
\* invocations the email is eventually written as bounced by the general sweep,
\* also when the same sender has another due pending check in every invocation.
LateBounceSwept ==
  (/\ pending_bounce_checks["e1"].checked
   /\ pending_bounce_checks["e1"].check_result = "ok"
   /\ \E n \in ndr : /\ n.sender = email_history["e1"].sender_email
                     /\ toLowerCase(n.recipient) = toLowerCase(email_history["e1"].recipient_email)
                     /\ n.received_at <= email_history["e1"].sent_at + NDR_LOOKBACK_SECONDS)
    ~> email_history["e1"].status = "bounced"

\* C21: when a reconciliation run (process-bounce-checks or sync-email-bounces)
\* has written as bounced an email whose first open had credited the linked
\* contact (+1 email_opens, +5 engagement_score), the contact holds the values
\* it had before that open when the run ends.
BounceRestoresContact ==
  [][/\ \A b \in Checkers :
          (check[b].pc # "done" /\ check'[b].pc = "done"
             /\ EmailId \in check[b].bouncedPendingIds)
            => contacts'[ContactId] = ContactBeforeOpen
     /\ \A y \in Syncers :
          (sync[y].pc \in {"contact_read", "contact_write"} /\ sync'[y].pc = "done")
            => contacts'[ContactId] = ContactBeforeOpen]_vars

\* what a bounce-mark call with the default type leaves of a store of
\* InitOneBounce: the bounced fields with type 'hard' on the row, and the
\* contact with the credit of the open taken back if the email was opened
BounceMarkOutcome(row) ==
  [ email |-> BouncedFields("hard"),
    contact |-> IF row.first_open_ip # NULL THEN ContactBeforeOpen
                ELSE [email_opens |-> 2, engagement_score |-> 15] ]

\* C22: starting from the same email and contact rows, a bounce-mark call with
\* the default type and a bounce match of a reconciliation run leave the same
\* status, bounce_type, open_count, unique_opens, opened_at and is_valid_open
\* on the email and the same email_opens and engagement_score on the contact.
SameBounceOutcome ==
  LET row == email_history[EmailId]
      ended == \/ mark[1].pc = "done" /\ mark[1].status = 200
               \/ check[1].pc = "done" /\ check[1].status = 200
               \/ sync[1].pc = "done" /\ sync[1].status = 200
  IN (ended /\ row.status = "bounced")
       => /\ \A k \in DOMAIN BounceMarkOutcome(row).email :
               row[k] = BounceMarkOutcome(row).email[k]
          /\ contacts[ContactId] = BounceMarkOutcome(row).contact

\* the email_replies rows that reference the email: the replies in the model
\* that are recorded are recorded for it
ReplyRows == email_replies["g1"] + email_replies["g2"] + email_replies["g3"] + email_replies["g4"]

\* C23: after any sequence of process-email-replies invocations the email's
\* reply_count equals the number of email_replies rows that reference it,
\* also when one invocation found several new replies to the email.
ReplyCountMatchesRows ==
  reply[1].pc \in {"idle", "done"} => email_history[EmailId].reply_count = ReplyRows

\* C24: replied_at is set by the first recorded reply to an email and is never
\* changed by later replies, and the email_replied notification is inserted
\* only for that first reply.
FirstReplyEffectsOnce ==
  /\ [](notifications.email_replied <= 1)
  /\ [][email_history[EmailId].replied_at # NoTime
          => email_history'[EmailId].replied_at = email_history[EmailId].replied_at]_vars

\* the phrases the provider writes the recipient in, highest priority first
ProviderPatterns == <<"YourMessageTo", "MessageTo", "CouldntDeliverTo">>

\* the address of the highest-priority provider pattern that matches the body
ProviderAddress(body) ==
  LET hits == {k \in 1..3 : match(body, ProviderPatterns[k]) # 0}
      k == CHOOSE h \in hits : \A g \in hits : h <= g
  IN body[match(body, ProviderPatterns[k])].addr

\* C25: for an NDR body in which a provider phrase ("Your message to X couldn't
\* be delivered", "message to X couldn't be delivered", "couldn't deliver to X")
\* and a lower-priority pattern (To: header, address in angle brackets, any
\* address) match with different addresses, every copy of the parser returns
\* the lower-cased address of the highest-priority matching pattern, wherever
\* in the text each of them stands.
ProviderPhraseWins ==
  \A n \in ndr :
    LET body == inbox[1].body
    IN (/\ \E k \in 1..3 : match(body, ProviderPatterns[k]) # 0
        /\ \E i \in 1..Len(body) : body[i].addr # ProviderAddress(body))
         => n.recipient = toLowerCase(ProviderAddress(body))

\* C26: getAccessToken fails with the configuration error, without posting a
\* request, exactly when for at least one of tenant id, client id and client
\* secret neither the mail-specific nor the generic variable is set; otherwise
\* each credential of the request is the mail-specific value when that is set
\* and the generic value when it is not. This holds for the getAccessToken of
\* every function, send-email included.
CredentialsResolved ==
  \A fn \in TokenFunctions :
    tokenCalls[fn].result # "none"
      => LET missing == \E c \in Credentials :
                          /\ azureEnv[MailVariable[c]] = NULL
                          /\ azureEnv[GenericVariable[c]] = NULL
             expected == [c \in Credentials |->
                            IF azureEnv[MailVariable[c]] # NULL THEN azureEnv[MailVariable[c]]
                            ELSE azureEnv[GenericVariable[c]]]
         IN IF missing
            THEN tokenCalls[fn].result = "not_configured" /\ tokenCalls[fn].posts = 0
            ELSE /\ tokenCalls[fn].result # "not_configured"
                 /\ tokenCalls[fn].posts = 1
                 /\ tokenCalls[fn].tenantId = expected["tenantId"]
                 /\ tokenCalls[fn].clientId = expected["clientId"]
                 /\ tokenCalls[fn].clientSecret = expected["clientSecret"]

NothingToTrack(t) ==
  /\ t.pc \notin {"idle", "done"}
  /\ \/ t.id \notin DOMAIN email_history
     \/ ~UserAgentIsBot[t.ua] /\ email_history[t.id].bounce_type # NULL

\* C28: no step of a pixel request with no id, with an id that matches no
\* email_history row, or from a non-bot agent for a row whose bounce_type is set
\* changes email_history, contacts or notifications.
NothingToTrackNoWrite ==
  [][\A f \in Fetchers :
       (track'[f] # track[f]
          /\ (NothingToTrack(track[f]) \/ NothingToTrack(track'[f]) \/ track'[f].ret = "no_id"))
         => /\ email_history' = email_history
            /\ contacts' = contacts
            /\ notifications' = notifications]_vars

\* C28 witness: a request without id and a browser's request for the bounced
\* row have both been answered, and the tables are as they were at the start.
NothingTracked ==
  /\ fetches = 2
  /\ track[1].ret = "no_id"
  /\ track[2].ret = "bounced"
  /\ email_history = (EmailId :> (BouncedFields("hard") @@ NewEmailRow(ContactId, UserId, 0)))
  /\ contacts = (ContactId :> [email_opens |-> 1, engagement_score |-> 98])
  /\ notifications = NoNotifications

\* C29: in every reachable state a contact's engagement_score is within 0..100
\* and its email_opens is not negative, for initial values in that range, under
\* any interleaving of open credits (+5, capped at 100) and bounce corrections
\* (-5 or -10, floored at 0).
EngagementWithinRange ==
  \A c \in DOMAIN contacts :
    /\ contacts[c].engagement_score >= 0
    /\ contacts[c].engagement_score <= 100
    /\ contacts[c].email_opens >= 0

\* C29 witness: the contact was credited for an open and corrected for the
\* bounce, and the correction was floored: the score is 0 and email_opens is 0.
CreditedThenFloored ==
  /\ openCredits = 1
  /\ bounceDebits = 1
  /\ contacts[ContactId] = [email_opens |-> 0, engagement_score |-> 0]

\* C30: once the status of an email is 'replied', no later pixel request moves
\* it back to 'opened': 'replied' may follow 'opened', 'opened' never follows
\* 'replied'.
RepliedNotReopened ==
  [][\A id \in DOMAIN email_history :
       email_history[id].status = "replied" => email_history'[id].status # "opened"]_vars

\* C31: the back-fill step of the send handler changes only message_id of its
\* row: every other column, is_valid_open, status and the bounce columns among
\* them, keeps the value a pixel request or a bounce write gave it after the
\* insert.
BackfillWritesMessageIdOnly ==
  [][(send.pc = "backfill" /\ send'.pc = "enqueue") =>
       email_history'[send.emailId] =
         [email_history[send.emailId] EXCEPT !.message_id = send.messageId]]_vars

\* the message of the inbox with the given provider id
InboxMessage(g) == inbox[CHOOSE i \in 1..Len(inbox) : inbox[i].id = g]

\* the Message-ID a message answers: its In-Reply-To value or, when that is
\* absent, the last token of References
AnsweredId(msg) ==
  IF msg.inReplyTo # <<>> THEN msg.inReplyTo ELSE msg.references[Len(msg.references)]

\* C32: a message is recorded as a reply to the email only if it carries an
\* In-Reply-To or References header, the id it answers equals the email's
\* message_id up to surrounding angle brackets, and the email is not bounced,
\* was sent within the 7 days before the run and has a message_id.
ReplyRecordedOnlyIfMatching ==
  [][\A g \in GraphIds :
       email_replies'[g] > email_replies[g] =>
         LET msg == InboxMessage(g)
             E == email_history[EmailId]
         IN /\ msg.inReplyTo # <<>> \/ msg.references # <<>>
            /\ E.message_id # NoMessageId
            /\ stripBrackets(AnsweredId(msg)) = stripBrackets(E.message_id)
            /\ E.status # "bounced"
            /\ E.sent_at >= now - REPLY_LOOKBACK_SECONDS]_vars

\* a message naming the email last in References has been recorded as a reply
\* to a row whose message_id is kept without brackets, while the message before
\* it in the inbox, which answers another mail, has not
ReferencesReplyRecorded ==
  /\ inbox = <<Msg4, Msg2>>
  /\ email_history[EmailId].message_id = <<"m", "1">>
  /\ email_replies["g2"] = 1
  /\ email_replies["g4"] = 0
  /\ reply[1].pc = "done"

\* C33: when a run of the bounce reconciliation service writes an email as
\* bounced, in its pending pass or in its sweep, the sender's mailbox holds a
\* non-delivery report naming the recipient that was received after the email
\* was sent: a report about an earlier message to the recipient bounces no
\* later send.
BouncedByLaterNdrOnly ==
  [][\A b \in Checkers, id \in DOMAIN email_history :
       ( /\ check[b].pc \in {"bounce", "sweep_bounce"}
         /\ check'[b] # check[b]
         /\ email_history[id].status # "bounced"
         /\ id \in DOMAIN email_history'
         /\ email_history'[id].status = "bounced" )
       => \E n \in ndr :
            /\ n.sender = email_history[id].sender_email
            /\ toLowerCase(n.recipient) = toLowerCase(email_history[id].recipient_email)
            /\ n.received_at >= email_history[id].sent_at]_vars

\* C34: no two distinct email_history rows hold the same non-null message_id,
\* also when the same sender sends two emails with the same subject in
\* overlapping requests.
MessageIdsDistinct ==
  \A a \in DOMAIN email_history, b \in DOMAIN email_history :
    (a # b /\ email_history[a].message_id # NoMessageId)
      => email_history[a].message_id # email_history[b].message_id

\* C35: every pending_bounce_checks row whose check_after has passed is
\* eventually marked checked = true by a process-bounce-checks run, before the
\* cleanup deletes it, also when more rows are due than one run reads.
DueCheckEventuallyMade ==
  \A id \in BacklogIds :
    (/\ id \in DOMAIN pending_bounce_checks
     /\ ~pending_bounce_checks[id].checked
     /\ pending_bounce_checks[id].check_after <= now)
    ~> (id \in DOMAIN pending_bounce_checks /\ pending_bounce_checks[id].checked)

\* within one tab no two runBounceCheck calls are past the guards at once
NoOverlapInTab ==
  \A t \in Tabs : \A j \in Calls, k \in Calls :
    (worker[t][j].pc # "idle" /\ worker[t][k].pc # "idle") => j = k

\* no two invocations of process-bounce-checks by the tabs lie less than 2
\* minutes apart
InvocationsSpaced ==
  \A a \in invoked, b \in invoked :
    a # b => (a.at - b.at >= MIN_TIME_BETWEEN_CHECKS_SECONDS
              \/ b.at - a.at >= MIN_TIME_BETWEEN_CHECKS_SECONDS)

\* C36: across the tabs sharing localStorage no two runs of the background
\* worker invoke process-bounce-checks within 2 minutes of each other, and
\* within one tab no two runs of runBounceCheck overlap.
WorkerRunsExclusive == InvocationsSpaced /\ NoOverlapInTab
====
